---- MODULE Spec2Model ----
(***************************************************************************)
(* State-machine model of the gnoman trust store: the audit ledgers        *)
(* (gnoman/audit.py, gnoman/core.py ForensicLedger, gnoman/utils/logbook), *)
(* the SecretStore facade and its synchroniser (gnoman/core.py,            *)
(* gnoman/sync.py, gnoman/services/state.py), the keyring adapter          *)
(* (gnoman/utils/keyring_backend.py), the encrypted JSON store             *)
(* (gnoman/security/encrypted_store.py), the file-backed keyring           *)
(* (gnoman/utils/keyring_compat.py), the keyring/env-file synchroniser    *)
(* (gnoman/core/sync_manager.py) and the event log                         *)
(* (gnoman/core/log_manager.py).                                           *)
(*                                                                         *)
(* Cryptographic primitives are modelled symbolically: a hash, a signature *)
(* and a ciphertext are terms that record what they were computed from, so *)
(* two of them are equal exactly when their inputs are equal.              *)
(***************************************************************************)
EXTENDS Integers, Sequences, FiniteSets, TLC

VARIABLES
    impl,       \* which implementation the run exercises
    ledger,     \* the ledger file: the sequence of its newline-terminated records
    clock,      \* time.time() as a strictly increasing counter
    entries,    \* the parsed records handed to verify_tail
    altered,    \* the alteration made to `entries` after they were read ("none" or a field name)
    backend,    \* SecretStore.backend: "memory" for a keyring backend, "None" without one
    keyring,    \* the backend's passwords under the store's service name, per key
    envCache,   \* EnvStore._cache, which _write mirrors to the env file
    index,      \* SecretStore._index_cache, which _write_index mirrors to the index file
    stores,     \* services.state.SecretsStore._stores
    logged,     \* the records the last operation appended to the ForensicLedger
    ret,        \* the last operation: its name, arguments and outcome
    passwords,  \* the keyring library's passwords, per (service, username)
    adapterIndex, \* KeyringLibraryAdapter's secrets_index.json: metadata per (service, username)
    minted,     \* how many tokens secrets.token_urlsafe has produced
    disk,       \* EncryptedJSONStore's file: the envelope on disk, or NoFile
    saved,      \* the payload and passphrase of the save that wrote the file
    tampered,   \* how the file was altered after that save
    storage,    \* FileKeyring's file at storage_path: whether it exists and its document
    dotenv,     \* SyncManager's .env file, per key
    secure,     \* SyncManager's .env.secure file, per key
    envKeyring, \* the keyring entries under SyncManager.SERVICE, per key
    stamps,     \* the timestamps of the entries of SecretStore's index, per key
    pc,         \* where each concurrent caller stands in the operation it runs
    local       \* what each concurrent caller holds in its own memory

ledgerVars == <<ledger, clock, entries, altered>>

storeVars == <<backend, keyring, envCache, index, stores, logged>>

adapterVars == <<passwords, adapterIndex, minted>>

backupVars == <<disk, saved, tampered>>

fileVars == <<storage>>

syncVars == <<dotenv, secure, envKeyring>>

indexVars == <<stamps>>

procVars == <<pc, local>>

vars == <<impl, ledger, clock, entries, altered, backend, keyring, envCache, index, stores,
          logged, ret, passwords, adapterIndex, minted, disk, saved, tampered, storage,
          dotenv, secure, envKeyring, stamps, pc, local>>

None == "None"

Max(a, b) == IF a > b THEN a ELSE b

Min(a, b) == IF a < b THEN a ELSE b

(***************************************************************************)
(* Symbolic cryptography                                                   *)
(***************************************************************************)

\* hashlib.sha256(x).hexdigest(): a term over its input
Sha256(x) == <<"sha256", x>>

\* the previous-hash of the first record: "" in audit.py and core.py, None in logbook.py
Genesis == << >>

\* Ed25519: private_key.sign(message)
Ed25519Sign(key, message) == [signer |-> key, msg |-> message]

\* Ed25519: public_key.verify(signature, message) does not raise
Ed25519Verify(key, signature, message) ==
    /\ signature.signer = key
    /\ signature.msg = message

\* base64.b64encode(raw).decode("ascii"): the text carries no character outside the alphabet
\* (`junk` counts such characters; `empty` says the text is the empty string)
B64Encode(raw) == [raw |-> raw, junk |-> 0, empty |-> FALSE]

\* base64.b64decode(text) with validate=False: characters outside the alphabet are discarded
B64Decode(text) == text.raw

\* the signing key both ledgers resolve (keyring / environment / PEM file)
AuditKey == "audit-key"

(***************************************************************************)
(* Bounds                                                                  *)
(***************************************************************************)

MaxRecords == 3

\* length in bytes of a short JSON line
ShortLine == 300

\* audit.py: step = 2048 in _load_last_record_hash
AuditStep == 2048

\* core.py: step = min(4096, size) in ForensicLedger._load_last_hash
ForensicStep == 4096

LedgerImpls == {"audit", "forensic", "logbook"}

Actions == {"unit"}

\* lengths of a record's JSON line (without its newline): short, one byte below the
\* block size, and the block size
LineSizes(step) == {ShortLine, step - 1, step}

(***************************************************************************)
(* The ledger file as bytes: record i occupies size_i bytes and a newline  *)
(***************************************************************************)

RECURSIVE LineStart(_, _)
\* offset of the first byte of line i
LineStart(file, i) == IF i = 1 THEN 0 ELSE LineStart(file, i - 1) + file[i - 1].size + 1

FileSize(file) == IF file = << >> THEN 0 ELSE LineStart(file, Len(file)) + file[Len(file)].size + 1

\* b"\n" in buffer, the buffer being the bytes [lo, hi) of the file
NewlineIn(file, lo, hi) ==
    \E i \in 1..Len(file) :
        LET nl == LineStart(file, i) + file[i].size IN lo <= nl /\ nl < hi

RECURSIVE TailLoop(_, _, _)
\* the while loop of the tail readers: the offset at which the buffer starts when it ends
TailLoop(file, position, step) ==
    LET newpos == Max(0, position - step) IN
    IF NewlineIn(file, newpos, FileSize(file)) \/ newpos = 0
    THEN newpos
    ELSE TailLoop(file, newpos, step)

\* buffer.splitlines()[-1] parsed with json.loads: the last record when the whole of
\* its line lies in the buffer; a fragment of the line is no JSON document, the
\* exception is caught and "" is returned
TailHash(file, step) ==
    IF FileSize(file) = 0 THEN Genesis
    ELSE LET start == TailLoop(file, FileSize(file), step) IN
         IF start <= LineStart(file, Len(file))
         THEN file[Len(file)].hash
         ELSE Genesis

\* audit.py _load_last_record_hash
LoadLastRecordHash(file) == TailHash(file, AuditStep)

\* core.py ForensicLedger._load_last_hash
ForensicLoadLastHash(file) == TailHash(file, Min(ForensicStep, FileSize(file)))

\* logbook.py _last_hash: reads the whole file
LogbookLastHash(file) == IF file = << >> THEN Genesis ELSE file[Len(file)].hash

(***************************************************************************)
(* audit.py                                                                *)
(***************************************************************************)

\* read_tail: block_size = 2048
ReadBlock == 2048

RECURSIVE LinesFrom(_, _, _)
\* the lines of the bytes [offset, size) of the file, from line i on: a line that
\* starts at or after the offset is whole, the line the offset falls in is cut and
\* only its last bytes are there (none when the offset is at its newline)
LinesFrom(file, offset, i) ==
    IF i > Len(file) THEN << >>
    ELSE LET start == LineStart(file, i)
             newline == start + file[i].size
         IN IF offset <= start
            THEN <<[rec |-> i, whole |-> TRUE, bytes |-> file[i].size]>>
                    \o LinesFrom(file, offset, i + 1)
            ELSE IF offset <= newline
            THEN <<[rec |-> i, whole |-> FALSE, bytes |-> newline - offset]>>
                    \o LinesFrom(file, offset, i + 1)
            ELSE LinesFrom(file, offset, i + 1)

\* buffer.count(b"\n") for the bytes [offset, size) of the file
NewlineCount(file, offset) ==
    Cardinality({i \in 1..Len(file) : LineStart(file, i) + file[i].size >= offset})

RECURSIVE ReadTailLoop(_, _, _, _, _, _)
\* the while loop of read_tail: every pass reads from the new offset to the end of the
\* file and puts what it read in front of the data it already has
ReadTailLoop(file, offset, block_size, data, count, lines) ==
    IF offset > 0 /\ count <= lines
    THEN LET newoffset == Max(0, offset - block_size) IN
         ReadTailLoop(file, newoffset, 2 * block_size,
                      LinesFrom(file, newoffset, 1) \o data,
                      NewlineCount(file, newoffset) + count, lines)
    ELSE data

\* data.strip().splitlines(): a newline at the very start of the data is stripped
StripLines(data) ==
    IF data # << >> /\ ~Head(data).whole /\ Head(data).bytes = 0 THEN Tail(data) ELSE data

\* decoded[-lines:]
LastLines(decoded, lines) ==
    IF Len(decoded) <= lines THEN decoded
    ELSE SubSeq(decoded, Len(decoded) - lines + 1, Len(decoded))

\* read_tail(lines)
ReadTail(file, lines) ==
    IF file = << >> THEN << >>
    ELSE LastLines(StripLines(ReadTailLoop(file, FileSize(file), ReadBlock, << >>, 0, lines)),
                   lines)

RECURSIVE ParsedLines(_, _)
\* read_tail_records: json.loads of each line, a line that is no JSON document skipped
ParsedLines(file, raw) ==
    IF raw = << >> THEN << >>
    ELSE (IF Head(raw).whole THEN <<file[Head(raw).rec]>> ELSE << >>)
            \o ParsedLines(file, Tail(raw))

\* read_tail_records(lines)
ReadTailRecords(file, lines) == ParsedLines(file, ReadTail(file, lines))

\* _calculate_hash: SHA-256 of json.dumps({"prev": prev_hash, **payload}, sort_keys=True)
MutCalculateHash(prev_hash, payload) == Sha256(payload)
CalculateHash(prev_hash, payload) ==
    Sha256([prev |-> prev_hash, timestamp |-> payload.timestamp, action |-> payload.action,
            size |-> payload.size, ok |-> payload.ok])

\* _sign_payload: base64 of the signature over json.dumps(payload, sort_keys=True)
SignPayload(key, payload) == B64Encode(Ed25519Sign(key, payload))

\* the signed message of an entry: the entry without its signature
SignedBody(e) ==
    [prev |-> e.prev, timestamp |-> e.timestamp, action |-> e.action,
     size |-> e.size, ok |-> e.ok, hash |-> e.hash]

\* append_record: the entry written to the file
AuditEntry(file, now, action, size, ok) ==
    LET payload == [timestamp |-> now, action |-> action, size |-> size, ok |-> ok]
        previous_hash == LoadLastRecordHash(file)
        record_hash == CalculateHash(previous_hash, payload)
        record_body == [prev |-> previous_hash, timestamp |-> now, action |-> action,
                        size |-> size, ok |-> ok, hash |-> record_hash]
    IN  [prev |-> previous_hash, timestamp |-> now, action |-> action, size |-> size,
         ok |-> ok, hash |-> record_hash, signature |-> SignPayload(AuditKey, record_body)]

\* verify_tail on one entry
VerifyEntry(e) ==
    /\ ~e.signature.empty
    /\ Ed25519Verify(AuditKey, B64Decode(e.signature), SignedBody(e))

\* verify_tail
VerifyTail(es) == \A i \in 1..Len(es) : VerifyEntry(es[i])

(***************************************************************************)
(* core.py ForensicLedger                                                  *)
(***************************************************************************)

\* ForensicLedger._signature: a status glyph, no cryptographic signature
ForensicSignature(ok) == IF ok THEN "OK" ELSE "ERR"

\* ForensicLedger.log: the envelope written to the file
ForensicEntry(file, now, action, size, ok) ==
    LET prev_hash == ForensicLoadLastHash(file)
        envelope == [prev |-> prev_hash, timestamp |-> now, action |-> action,
                     size |-> size, ok |-> ok, glyph |-> ForensicSignature(ok)]
    IN  [prev |-> prev_hash, timestamp |-> now, action |-> action, size |-> size,
         ok |-> ok, hash |-> Sha256(envelope),
         signature |-> B64Encode(ForensicSignature(ok))]

(***************************************************************************)
(* utils/logbook.py                                                        *)
(***************************************************************************)

\* the canonical form of the hashed fields {ts, prev, record}
LogbookCanonical(prev, now, action, size, ok) ==
    [prev |-> prev, timestamp |-> now, action |-> action, size |-> size, ok |-> ok]

\* _write_audit_record: the entry written to the file
LogbookEntry(file, now, action, size, ok) ==
    LET prev_hash == LogbookLastHash(file)
        canonical == LogbookCanonical(prev_hash, now, action, size, ok)
    IN  [prev |-> prev_hash, timestamp |-> now, action |-> action, size |-> size,
         ok |-> ok, hash |-> Sha256(canonical),
         signature |-> B64Encode(Ed25519Sign(AuditKey, Sha256(canonical)))]

(***************************************************************************)
(* Ledger actions                                                          *)
(***************************************************************************)

LedgerIdle ==
    /\ ledger = << >>
    /\ clock = 1
    /\ entries = << >>
    /\ altered = "none"

StoreIdle ==
    /\ backend = None
    /\ keyring = << >>
    /\ envCache = << >>
    /\ index = << >>
    /\ stores = << >>
    /\ logged = << >>

AdapterIdle ==
    /\ passwords = << >>
    /\ adapterIndex = << >>
    /\ minted = 0

BackupIdle ==
    /\ disk = << >>
    /\ saved = << >>
    /\ tampered = "none"

FileIdle == storage = [exists |-> FALSE, doc |-> << >>]

IndexIdle == stamps = << >>

ProcIdle == pc = << >> /\ local = << >>

SyncIdle ==
    /\ dotenv = << >>
    /\ secure = << >>
    /\ envKeyring = << >>

\* a fresh ledger file
InitLedger ==
    /\ impl \in LedgerImpls
    /\ LedgerIdle
    /\ StoreIdle
    /\ AdapterIdle
    /\ BackupIdle
    /\ FileIdle
    /\ IndexIdle
    /\ ProcIdle
    /\ SyncIdle
    /\ ret = [op |-> "init"]

\* audit.append_record(action, params, ok, result)
AppendRecord ==
    /\ impl = "audit"
    /\ Len(ledger) < MaxRecords
    /\ \E action \in Actions, size \in LineSizes(AuditStep), ok \in BOOLEAN :
          ledger' = Append(ledger, AuditEntry(ledger, clock, action, size, ok))
    /\ clock' = clock + 1
    /\ ret' = [op |-> "append"]
    /\ UNCHANGED <<impl, indexVars, procVars, fileVars, syncVars, entries, altered, storeVars, adapterVars, backupVars>>

\* ForensicLedger.log(action, params=..., result=..., ok=...)
ForensicLog ==
    /\ impl = "forensic"
    /\ Len(ledger) < MaxRecords
    /\ \E action \in Actions, size \in LineSizes(ForensicStep), ok \in BOOLEAN :
          ledger' = Append(ledger, ForensicEntry(ledger, clock, action, size, ok))
    /\ clock' = clock + 1
    /\ ret' = [op |-> "append"]
    /\ UNCHANGED <<impl, indexVars, procVars, fileVars, syncVars, entries, altered, storeVars, adapterVars, backupVars>>

\* logbook.info(record)
LogbookInfo ==
    /\ impl = "logbook"
    /\ Len(ledger) < MaxRecords
    /\ \E action \in Actions, size \in LineSizes(AuditStep), ok \in BOOLEAN :
          ledger' = Append(ledger, LogbookEntry(ledger, clock, action, size, ok))
    /\ clock' = clock + 1
    /\ ret' = [op |-> "append"]
    /\ UNCHANGED <<impl, indexVars, procVars, fileVars, syncVars, entries, altered, storeVars, adapterVars, backupVars>>

\* read_tail_records(n): the lines read_tail(n) returns, and those of them that parse
ReadRecords ==
    /\ impl = "audit"
    /\ \E n \in 1..(Len(ledger) + 1) :
          /\ entries' = ReadTailRecords(ledger, n)
          /\ ret' = [op |-> "read_tail", lines |-> n, raw |-> ReadTail(ledger, n)]
    /\ altered' = "none"
    /\ UNCHANGED <<impl, indexVars, procVars, fileVars, syncVars, ledger, clock, storeVars, adapterVars, backupVars>>

OtherHash == Sha256("other")

\* the values a field of an entry can be changed to
Alterations(e, field) ==
    CASE field = "prev" -> {[e EXCEPT !.prev = IF e.prev = Genesis THEN OtherHash ELSE Genesis]}
      [] field = "timestamp" -> {[e EXCEPT !.timestamp = e.timestamp + 1]}
      [] field = "action" -> {[e EXCEPT !.action = "forged"]}
      [] field = "params" -> {[e EXCEPT !.size = e.size + 1]}
      [] field = "ok" -> {[e EXCEPT !.ok = ~e.ok]}
      [] field = "hash" -> {[e EXCEPT !.hash = OtherHash]}
      [] field = "signature" ->
            {[e EXCEPT !.signature.empty = TRUE],
             [e EXCEPT !.signature = B64Encode(Ed25519Sign("other-key", SignedBody(e)))],
             [e EXCEPT !.signature.junk = e.signature.junk + 1]}

Fields == {"prev", "timestamp", "action", "params", "ok", "hash", "signature"}

\* one field of one record is altered after the record was appended
AlterEntry ==
    /\ impl = "audit"
    /\ altered = "none"
    /\ \E i \in 1..Len(entries), field \in Fields :
          \E e \in Alterations(entries[i], field) :
              /\ entries' = [entries EXCEPT ![i] = e]
              /\ altered' = field
              /\ ret' = [op |-> "alter", field |-> field]
    /\ UNCHANGED <<impl, indexVars, procVars, fileVars, syncVars, ledger, clock, storeVars, adapterVars, backupVars>>

LedgerNext == AppendRecord \/ ForensicLog \/ LogbookInfo \/ ReadRecords \/ AlterEntry

SpecLedger == InitLedger /\ [][LedgerNext]_vars

(***************************************************************************)
(* Two processes appending to one ledger file: each call first reads the   *)
(* last hash and then opens the file for append and writes its line        *)
(***************************************************************************)

Procs == {"p1", "p2"}

\* a fresh ledger file and two processes that have not called yet
InitAppenders ==
    /\ impl \in LedgerImpls
    /\ LedgerIdle
    /\ StoreIdle
    /\ AdapterIdle
    /\ BackupIdle
    /\ FileIdle
    /\ IndexIdle
    /\ SyncIdle
    /\ pc = [p \in Procs |-> "idle"]
    /\ local = [p \in Procs |-> << >>]
    /\ ret = [op |-> "init", overlapped |-> FALSE]

\* the entry a process writes, computed from the file as the process read it
EntryOf(file, now, action, size, ok) ==
    IF impl = "audit" THEN AuditEntry(file, now, action, size, ok)
    ELSE IF impl = "forensic" THEN ForensicEntry(file, now, action, size, ok)
    ELSE LogbookEntry(file, now, action, size, ok)

\* the first half of an append: _load_last_record_hash / _load_last_hash / _last_hash
\* reads the file; the call overlaps another one when that one has read and not written
LoadLastHash(p) ==
    /\ pc[p] = "idle"
    /\ Len(ledger) + Cardinality({q \in Procs : pc[q] = "loaded"}) < MaxRecords
    /\ pc' = [pc EXCEPT ![p] = "loaded"]
    /\ local' = [local EXCEPT ![p] = ledger]
    /\ ret' = [op |-> "load_last_hash",
               overlapped |-> ret.overlapped \/ \E q \in Procs \ {p} : pc[q] = "loaded"]
    /\ UNCHANGED <<impl, indexVars, fileVars, syncVars, ledgerVars, storeVars, adapterVars,
                   backupVars>>

\* the second half of an append: open(path, "a") and handle.write(line + "\n")
WriteLine(p) ==
    /\ pc[p] = "loaded"
    /\ \E action \in Actions, ok \in BOOLEAN,
          size \in LineSizes(IF impl = "forensic" THEN ForensicStep ELSE AuditStep) :
          ledger' = Append(ledger, EntryOf(local[p], clock, action, size, ok))
    /\ clock' = clock + 1
    /\ pc' = [pc EXCEPT ![p] = "idle"]
    /\ local' = [local EXCEPT ![p] = << >>]
    /\ ret' = [op |-> "write_line", overlapped |-> ret.overlapped]
    /\ UNCHANGED <<impl, indexVars, fileVars, syncVars, entries, altered, storeVars,
                   adapterVars, backupVars>>

AppendersNext == \E p \in Procs : LoadLastHash(p) \/ WriteLine(p)

SpecAppenders == InitAppenders /\ [][AppendersNext]_vars

(***************************************************************************)
(* The log file as the write calls that reached it, and a reader.  A text  *)
(* file object keeps the text of handle.write until it holds TextChunk     *)
(* bytes or the file is closed; what it passes on at once reaches the file *)
(* as one write of the operating system.                                   *)
(***************************************************************************)

\* the chunk size of the text layer of a file opened with open(path, "a")
TextChunk == 8192

LogImpls == LedgerImpls \cup {"log_manager"}

\* lengths of the JSON text of an event
EventSizes == {ShortLine, TextChunk - 1, TextChunk}

\* an empty log file, two writers and a reader
InitLogWriters ==
    /\ impl \in LogImpls
    /\ LedgerIdle
    /\ StoreIdle
    /\ AdapterIdle
    /\ BackupIdle
    /\ FileIdle
    /\ IndexIdle
    /\ SyncIdle
    /\ pc = [p \in Procs |-> "idle"]
    /\ local = [p \in Procs |-> << >>]
    /\ ret = [op |-> "init"]

\* records begun so far: those in the file and those held by a file object
Begun == Cardinality({i \in 1..Len(ledger) : ledger[i].part # "newline"})
            + Cardinality({p \in Procs : pc[p] = "json" /\ ~local[p].flushed})

\* append_record, ForensicLedger.log, _write_audit_record:
\* handle.write(json.dumps(entry) + "\n"), one write call for the line
WriteRecord(p) ==
    /\ impl \in LedgerImpls
    /\ pc[p] = "idle"
    /\ Begun < MaxRecords
    /\ \E size \in EventSizes :
          ledger' = Append(ledger, [rec |-> clock, size |-> size + 1, part |-> "line"])
    /\ clock' = clock + 1
    /\ ret' = [op |-> "write_record", proc |-> p]
    /\ UNCHANGED <<impl, indexVars, procVars, fileVars, syncVars, entries, altered,
                   storeVars, adapterVars, backupVars>>

\* log_event: handle.write(json.dumps(entry, sort_keys=True)); a text of TextChunk
\* bytes or more is passed on to the file at once, a shorter one is held
WriteJson(p) ==
    /\ impl = "log_manager"
    /\ pc[p] = "idle"
    /\ Begun < MaxRecords
    /\ \E size \in EventSizes :
          /\ local' = [local EXCEPT ![p] = [rec |-> clock, size |-> size,
                                            flushed |-> size >= TextChunk]]
          /\ ledger' = IF size >= TextChunk
                       THEN Append(ledger, [rec |-> clock, size |-> size, part |-> "json"])
                       ELSE ledger
    /\ pc' = [pc EXCEPT ![p] = "json"]
    /\ clock' = clock + 1
    /\ ret' = [op |-> "write_json", proc |-> p]
    /\ UNCHANGED <<impl, indexVars, fileVars, syncVars, entries, altered, storeVars,
                   adapterVars, backupVars>>

\* log_event: handle.write(os.linesep) and the close of the file: what the file object
\* still holds reaches the file as one write
WriteLinesep(p) ==
    /\ impl = "log_manager"
    /\ pc[p] = "json"
    /\ ledger' = Append(ledger,
                        IF local[p].flushed
                        THEN [rec |-> local[p].rec, size |-> 1, part |-> "newline"]
                        ELSE [rec |-> local[p].rec, size |-> local[p].size + 1,
                              part |-> "line"])
    /\ pc' = [pc EXCEPT ![p] = "idle"]
    /\ local' = [local EXCEPT ![p] = << >>]
    /\ ret' = [op |-> "write_linesep", proc |-> p]
    /\ UNCHANGED <<impl, indexVars, fileVars, syncVars, clock, entries, altered, storeVars,
                   adapterVars, backupVars>>

\* a reader reads the whole file between two steps of the writers
ReadLog ==
    /\ entries' = ledger
    /\ ret' = [op |-> "read_log"]
    /\ UNCHANGED <<impl, indexVars, procVars, fileVars, syncVars, ledger, clock, altered,
                   storeVars, adapterVars, backupVars>>

LogWritersNext ==
    \/ \E p \in Procs : WriteRecord(p) \/ WriteJson(p) \/ WriteLinesep(p)
    \/ ReadLog

SpecLogWriters == InitLogWriters /\ [][LogWritersNext]_vars

(***************************************************************************)
(* Strings: sequences of characters                                        *)
(***************************************************************************)

\* Python's None where a string may stand
NoneV == <<"<None>">>

RECURSIVE LStrip(_)
LStrip(s) == IF s # << >> /\ Head(s) = " " THEN LStrip(Tail(s)) ELSE s

RECURSIVE RStrip(_)
RStrip(s) == IF s # << >> /\ s[Len(s)] = " " THEN RStrip(SubSeq(s, 1, Len(s) - 1)) ELSE s

\* str.strip()
Strip(s) == RStrip(LStrip(s))

\* "*" * n
Stars(n) == [i \in 1..n |-> "*"]

\* whether `part` occurs in `whole` (Python's `part in whole`)
IsSubstring(part, whole) ==
    \E i \in 0..(Len(whole) - Len(part)) : SubSeq(whole, i + 1, i + Len(part)) = part

\* SecretStore._preview
Preview(value) ==
    IF Len(value) <= 4
    THEN Stars(Len(value))
    ELSE SubSeq(value, 1, 2) \o Stars(Len(value) - 4) \o SubSeq(value, Len(value) - 1, Len(value))

(***************************************************************************)
(* core.py: EnvStore and SecretStore                                       *)
(***************************************************************************)

Keys == {"K1", "K2"}

\* sorted(keys)
KeyOrder == <<"K1", "K2">>

\* the values callers pass to set(): empty, blank, padded, short, long, and a long
\* value whose middle is already the mask character
SecretInputs ==
    {<< >>, <<" ">>, <<"a">>, <<" ", "a">>, <<"a", "b", "c", "d", "e">>,
     <<"a", "b", "*", "d", "e">>}

\* the values a parsed env file may hold for a key (EnvStore._load strips them)
EnvFileValues == {<< >>, <<"a">>}

\* what the system keyring may hold for a key before the store first runs: nothing, or
\* a password some other tool wrote, which need not be stripped and may be empty
KeyringPriorValues == {NoneV, << >>, <<"a">>, <<" ", "a">>}

\* what the prompt of get() yields: NoneV when no prompt is made (allow_prompt false or
\* no prompt_text), else the text the user typed
PromptInputs == {NoneV, << >>, <<" ", "p">>}

NoEntry == [present |-> FALSE, sources |-> {}]

\* the store's mutable state as one value, threaded through the helpers below
StoreState ==
    [kr |-> keyring, env |-> envCache, idx |-> index, log |-> << >>, raised |-> "no",
     stamp |-> stamps, now |-> clock]

\* an index entry's timestamps, 0 for a field the entry lacks
NoStamp == [created_at |-> 0, updated_at |-> 0, last_access |-> 0]

\* _touch_index: the timestamps of the entry after index.setdefault(key, {...}) and the
\* two assignments that follow it
Touched(stamp, now) ==
    [created_at |-> IF stamp = NoStamp THEN now ELSE stamp.created_at,
     updated_at |-> now,
     last_access |-> now]

LogRecord(action, key, info, preview, ok, count) ==
    [action |-> action, key |-> key, info |-> info, preview |-> preview, ok |-> ok,
     count |-> count]

\* ForensicLedger.log as seen by the store: one more record in the file
LedgerLog(S, rec) == [S EXCEPT !.log = Append(@, rec)]

\* SecretStore._from_keyring
FromKeyring(S, key) == IF backend = None THEN NoneV ELSE S.kr[key]

\* SecretStore._set_keyring
SetKeyring(S, key, value) == IF backend = None THEN S ELSE [S EXCEPT !.kr[key] = value]

\* SecretStore._delete_keyring
DeleteKeyring(S, key) == IF backend = None THEN S ELSE [S EXCEPT !.kr[key] = NoneV]

\* EnvStore.get
EnvGet(S, key) == S.env[key]

\* EnvStore.set
EnvSet(S, key, value) == [S EXCEPT !.env[key] = value]

\* EnvStore.remove
EnvRemove(S, key) == [S EXCEPT !.env[key] = NoneV]

\* EnvStore.keys
EnvKeys(S) == {k \in Keys : S.env[k] # NoneV}

\* SecretStore._touch_index
TouchIndex(S, key, source) ==
    [S EXCEPT !.idx[key] = [present |-> TRUE, sources |-> @.sources \cup {source}],
              !.stamp = IF key \in DOMAIN @ THEN [@ EXCEPT ![key] = Touched(@, S.now)]
                        ELSE @]

\* SecretStore._remove_index
RemoveIndex(S, key) ==
    [S EXCEPT !.idx[key] = NoEntry,
              !.stamp = IF key \in DOMAIN @ THEN [@ EXCEPT ![key] = NoStamp] ELSE @]

\* SecretStore.set
StoreSet(S, key, value, persist_env) ==
    LET v == Strip(value)
        s1 == SetKeyring(S, key, v)
        s2 == IF persist_env THEN EnvSet(s1, key, v) ELSE s1
        s3 == TouchIndex(s2, key, "keyring")
        s4 == IF persist_env THEN TouchIndex(s3, key, "env") ELSE s3
    IN  IF v = << >> THEN [S EXCEPT !.raised = "ValueError"]
        ELSE LedgerLog(s4, LogRecord("secret_set", key,
                                     IF persist_env THEN "persist_env" ELSE "keyring_only",
                                     Preview(v), TRUE, 0))

\* SecretStore.get: the value returned
GetValue(S, key, default, entered) ==
    LET value == FromKeyring(S, key)
        env_value == EnvGet(S, key)
    IN  IF value # NoneV /\ value # << >> THEN value
        ELSE IF env_value # NoneV THEN env_value
        ELSE IF entered # NoneV /\ Strip(entered) # << >> THEN Strip(entered)
        ELSE default

\* SecretStore.get: the state it leaves
StoreGet(S, key, default, entered) ==
    LET value == FromKeyring(S, key)
        env_value == EnvGet(S, key)
    IN  IF value # NoneV /\ value # << >>
        THEN TouchIndex(LedgerLog(S, LogRecord("secret_get", key, "keyring", Preview(value),
                                               TRUE, 0)), key, "keyring")
        ELSE IF env_value # NoneV
        THEN TouchIndex(LedgerLog(S, LogRecord("secret_get", key, "env", Preview(env_value),
                                               TRUE, 0)), key, "env")
        ELSE IF entered # NoneV /\ Strip(entered) # << >>
        THEN TouchIndex(LedgerLog(EnvSet(SetKeyring(S, key, Strip(entered)), key,
                                         Strip(entered)),
                                  LogRecord("secret_prompt", key, "prompt", << >>, TRUE, 0)),
                        key, "prompt")
        ELSE IF default # NoneV THEN S
        ELSE LedgerLog(S, LogRecord("secret_missing", key, "", << >>, FALSE, 0))

\* SecretStore.require: the state it leaves, how it ends and what it returns
MutStoreRequire(S, key, entered) ==
    [state |-> StoreGet(S, key, NoneV, entered), status |-> "ok",
     value |-> GetValue(S, key, NoneV, entered)]
StoreRequire(S, key, entered) ==
    LET value == GetValue(S, key, NoneV, entered) IN
    [state |-> StoreGet(S, key, NoneV, entered),
     status |-> IF value = NoneV THEN "RuntimeError" ELSE "ok",
     value |-> value]

\* SecretStore.delete
MutStoreDelete(S, key) ==
    LedgerLog(RemoveIndex(DeleteKeyring(S, key), key),
              LogRecord("secret_delete", key, "", << >>, TRUE, 0))
StoreDelete(S, key) ==
    LedgerLog(RemoveIndex(EnvRemove(DeleteKeyring(S, key), key), key),
              LogRecord("secret_delete", key, "", << >>, TRUE, 0))

\* SecretStore.snapshot: the keys it lists
SnapshotKeys(S) == {k \in Keys : S.idx[k].present} \cup EnvKeys(S)

\* SecretStore.snapshot: per listed key, the sources that hold it and their values
\* (NoneV stands for a source the entry does not name)
Snapshot(S) ==
    [k \in SnapshotKeys(S) |-> [keyring |-> FromKeyring(S, k), env |-> EnvGet(S, k)]]

\* the values of one snapshot entry that are not None
SourceValues(sources) == {v \in {sources.keyring, sources.env} : v # NoneV}

\* SecretSyncer.detect_drift: the report
MutSyncerDrift(S) ==
    LET snapshot == Snapshot(S) IN
    [k \in {x \in DOMAIN snapshot : Cardinality(SourceValues(snapshot[x])) >= 1}
        |-> snapshot[k]]
SyncerDrift(S) ==
    LET snapshot == Snapshot(S) IN
    [k \in {x \in DOMAIN snapshot : Cardinality(SourceValues(snapshot[x])) > 1}
        |-> snapshot[k]]

\* SecretSyncer.detect_drift: the state it leaves
SyncerDetectDrift(S) ==
    LET s1 == LedgerLog(S, LogRecord("sync_snapshot", "", "", << >>, TRUE,
                                     Cardinality(SnapshotKeys(S))))
    IN  LedgerLog(s1, LogRecord("sync_drift", "", "", << >>, TRUE,
                                Cardinality(DOMAIN SyncerDrift(S))))

\* SecretSyncer.force_sync: the source whose value is taken for one snapshot entry
ForceSyncSource(sources) ==
    IF sources.keyring # NoneV THEN "keyring"
    ELSE IF sources.env # NoneV THEN "env"
    ELSE "none"

RECURSIVE ForceSyncLoop(_, _, _, _)
\* SecretSyncer.force_sync: the loop over the snapshot taken on entry, from the i-th
\* key on; a set() that raises ends the call
ForceSyncLoop(S, snapshot, i, count) ==
    IF i > Len(KeyOrder)
    THEN LedgerLog(S, LogRecord("sync_force", "", "", << >>, TRUE, count))
    ELSE LET key == KeyOrder[i] IN
         IF key \notin DOMAIN snapshot \/ ForceSyncSource(snapshot[key]) = "none"
         THEN ForceSyncLoop(S, snapshot, i + 1, count)
         ELSE LET value == IF ForceSyncSource(snapshot[key]) = "keyring"
                           THEN snapshot[key].keyring ELSE snapshot[key].env
                  s1 == StoreSet(S, key, value, TRUE)
              IN  IF s1.raised # "no" THEN s1
                  ELSE ForceSyncLoop(s1, snapshot, i + 1, count + 1)

\* SecretSyncer.force_sync
SyncerForceSync(S) == ForceSyncLoop(S, Snapshot(S), 1, 0)

\* the `decisions` argument of SecretSyncer.apply_decisions: a source name for some keys
Decisions ==
    UNION {[ks -> {"keyring", "env"}] : ks \in (SUBSET Keys) \ {{}}}

RECURSIVE ApplyLoop(_, _, _, _, _)
\* SecretSyncer.apply_decisions: the loop over the decisions against the snapshot taken
\* on entry, from the i-th key on; a set() that raises ends the call
ApplyLoop(S, snapshot, decisions, i, count) ==
    IF i > Len(KeyOrder)
    THEN LedgerLog(S, LogRecord("sync_apply", "", "", << >>, TRUE, count))
    ELSE LET key == KeyOrder[i]
             value == IF key \in DOMAIN decisions /\ key \in DOMAIN snapshot
                      THEN snapshot[key][decisions[key]] ELSE NoneV
         IN  IF value = NoneV THEN ApplyLoop(S, snapshot, decisions, i + 1, count)
             ELSE LET s1 == StoreSet(S, key, value, TRUE) IN
                  IF s1.raised # "no" THEN s1
                  ELSE ApplyLoop(s1, snapshot, decisions, i + 1, count + 1)

\* SecretSyncer.apply_decisions
SyncerApplyDecisions(S, decisions) == ApplyLoop(S, Snapshot(S), decisions, 1, 0)

(***************************************************************************)
(* services/state.py: SecretsStore                                         *)
(***************************************************************************)

\* the stores handed to SecretsStore, in dict order
StoreOrder == <<"keyring", "env", "env_secure">>

StoreNames == {StoreOrder[i] : i \in 1..Len(StoreOrder)}

\* _SECRETS_PRIORITY
Priority == <<"keyring", "env", "env_secure", "hashicorp", "aws">>

ServiceValues == {<<"a">>, <<"b">>}

\* SecretsStore.keys
ServiceKeys(st) == {k \in Keys : \E n \in StoreNames : st[n][k] # NoneV}

\* SecretsStore.snapshot: a copy of each store, a key it lacks left out
MutServiceSnapshot(st) ==
    [n \in StoreNames |-> [k \in {x \in Keys : st["keyring"][x] # NoneV} |-> st[n][k]]]
ServiceSnapshot(st) ==
    [n \in StoreNames |-> [k \in {x \in Keys : st[n][x] # NoneV} |-> st[n][k]]]

\* SecretsStore.detect_drift: the stores that hold the key, with their values
Seen(st, key) == [n \in {x \in StoreNames : st[x][key] # NoneV} |-> st[n][key]]

\* SecretsStore.detect_drift
ServiceDrift(st) ==
    [k \in {x \in ServiceKeys(st) :
                Cardinality({Seen(st, x)[n] : n \in DOMAIN Seen(st, x)}) > 1}
        |-> Seen(st, k)]

RECURSIVE AuthoritativeFrom(_, _, _, _)
\* SecretsStore.authoritative_value: the loop over the priority list from position i
AuthoritativeFrom(order, st, key, i) ==
    IF i > Len(order) THEN [store |-> "None", value |-> NoneV]
    ELSE IF order[i] \in StoreNames /\ st[order[i]][key] # NoneV
    THEN [store |-> order[i], value |-> st[order[i]][key]]
    ELSE AuthoritativeFrom(order, st, key, i + 1)

\* SecretsStore.authoritative_value
MutAuthoritativeValue(st, key) == AuthoritativeFrom(<<"env_secure", "env", "keyring">>, st, key, 1)
AuthoritativeValue(st, key) == AuthoritativeFrom(Priority, st, key, 1)

\* SecretsStore.reconcile_priority: the stores after the call
ReconcilePriority(st) ==
    [n \in StoreNames |->
        [k \in Keys |-> IF k \in ServiceKeys(st) /\ AuthoritativeValue(st, k).store # "None"
                        THEN AuthoritativeValue(st, k).value
                        ELSE st[n][k]]]

\* SecretsStore.apply_decisions for one decision key -> (store, value): the stores
\* after the call
ServiceApplyDecision(st, key, value) ==
    [n \in StoreNames |-> [st[n] EXCEPT ![key] = value]]

\* SecretsStore.reconcile_priority: the actions it returns
ReconcileActions(st) ==
    {[key |-> k, value |-> AuthoritativeValue(st, k).value,
      source |-> AuthoritativeValue(st, k).store, mode |-> "priority"] :
        k \in {x \in ServiceKeys(st) : AuthoritativeValue(st, x).store # "None"}}

(***************************************************************************)
(* Store actions                                                           *)
(***************************************************************************)

StoreImpls == {"core", "services"}

\* a new SecretStore over an env file that already exists, or a SecretsStore over
\* the stores it is given
InitStore ==
    /\ impl \in StoreImpls
    /\ LedgerIdle
    /\ AdapterIdle
    /\ BackupIdle
    /\ logged = << >>
    /\ FileIdle
    /\ IndexIdle
    /\ ProcIdle
    /\ SyncIdle
    /\ ret = [op |-> "init"]
    /\ IF impl = "core"
       THEN /\ backend \in {"memory", None}
            /\ keyring \in [Keys -> KeyringPriorValues]
            /\ backend = None => keyring = [k \in Keys |-> NoneV]
            /\ envCache \in [Keys -> EnvFileValues \cup {NoneV}]
            /\ index = [k \in Keys |-> NoEntry]
            /\ stores = << >>
       ELSE /\ backend = None
            /\ keyring = << >>
            /\ envCache = << >>
            /\ index = [k \in Keys |-> NoEntry]
            /\ stores \in [StoreNames -> [Keys -> ServiceValues \cup {NoneV}]]

\* the store's variables after an operation that left state S
Becomes(S) ==
    /\ keyring' = S.kr
    /\ envCache' = S.env
    /\ index' = S.idx
    /\ logged' = S.log
    /\ UNCHANGED <<impl, indexVars, procVars, fileVars, syncVars, ledgerVars, backend, stores, adapterVars, backupVars>>

\* the operations of one run of the timed index stop when the clock reaches this
MaxIndexClock == 5

\* a new SecretStore with a keyring backend and an index file of "{}", its clock read
\* at every operation
InitIndex ==
    /\ impl = "index"
    /\ ledger = << >>
    /\ clock = 1
    /\ entries = << >>
    /\ altered = "none"
    /\ AdapterIdle
    /\ BackupIdle
    /\ FileIdle
    /\ ProcIdle
    /\ SyncIdle
    /\ backend = "memory"
    /\ keyring = [k \in Keys |-> NoneV]
    /\ envCache \in [Keys -> {NoneV, <<"a">>}]
    /\ index = [k \in Keys |-> NoEntry]
    /\ stores = << >>
    /\ logged = << >>
    /\ stamps = [k \in Keys |-> NoStamp]
    /\ ret = [op |-> "init"]

\* the store's variables after an operation that read the clock and left state S
TimedBecomes(S) ==
    /\ keyring' = S.kr
    /\ envCache' = S.env
    /\ index' = S.idx
    /\ logged' = S.log
    /\ stamps' = S.stamp
    /\ clock' = clock + 1
    /\ UNCHANGED <<impl, procVars, fileVars, syncVars, ledger, entries, altered, backend,
                   stores, adapterVars, backupVars>>

\* SecretStore.set(key, value, persist_env=...) at time `clock`
TimedSet ==
    /\ impl = "index"
    /\ clock < MaxIndexClock
    /\ \E key \in Keys, persist_env \in BOOLEAN :
          /\ TimedBecomes(StoreSet(StoreState, key, <<"a">>, persist_env))
          /\ ret' = [op |-> "set", key |-> key, before |-> stamps[key], now |-> clock]

\* SecretStore.get(key, allow_prompt=False) at time `clock`
TimedGet ==
    /\ impl = "index"
    /\ clock < MaxIndexClock
    /\ \E key \in Keys :
          /\ TimedBecomes(StoreGet(StoreState, key, NoneV, NoneV))
          /\ ret' = [op |-> "get", key |-> key, before |-> stamps[key], now |-> clock,
                     value |-> GetValue(StoreState, key, NoneV, NoneV)]

\* SecretStore.delete(key) at time `clock`
TimedDelete ==
    /\ impl = "index"
    /\ clock < MaxIndexClock
    /\ \E key \in Keys :
          /\ TimedBecomes(StoreDelete(StoreState, key))
          /\ ret' = [op |-> "delete", key |-> key, before |-> stamps[key], now |-> clock]

\* RPC_ENV_KEY, the key under which the store holds the RPC URL
RpcKey == "K1"

\* params={"rpc": "tester"}
Tester == <<"t", "e", "s", "t", "e", "r">>

\* the web3_connect record: params={"rpc": rpc}
Web3Record(rpc, ok) == LogRecord("web3_connect", "", rpc, << >>, ok, 0)

\* AppContext._connect_web3: the state of the store it leaves; `outcome` is what the
\* provider does with the URL and `tester` whether EthereumTesterProvider is there
StoreConnectWeb3(S, outcome, tester) ==
    LET rpc == GetValue(S, RpcKey, NoneV, NoneV)
        got == StoreGet(S, RpcKey, NoneV, NoneV)
        tried == IF rpc = NoneV \/ rpc = << >> \/ outcome = "unreachable" THEN got
                 ELSE IF outcome = "connected" THEN LedgerLog(got, Web3Record(rpc, TRUE))
                 ELSE LedgerLog(got, Web3Record(rpc, FALSE))
    IN  IF rpc # NoneV /\ rpc # << >> /\ outcome = "connected" THEN tried
        ELSE IF tester THEN LedgerLog(tried, Web3Record(Tester, TRUE))
        ELSE tried

\* AppContext.get_web3() at time `clock`
ConnectWeb3 ==
    /\ impl = "index"
    /\ clock < MaxIndexClock
    /\ \E outcome \in {"connected", "raised", "unreachable"}, tester \in BOOLEAN :
          /\ TimedBecomes(StoreConnectWeb3(StoreState, outcome, tester))
          /\ ret' = [op |-> "connect_web3", key |-> RpcKey, before |-> stamps[RpcKey],
                     now |-> clock, outcome |-> outcome,
                     value |-> GetValue(StoreState, RpcKey, NoneV, NoneV)]

IndexNext == TimedSet \/ TimedGet \/ TimedDelete \/ ConnectWeb3

SpecIndex == InitIndex /\ [][IndexNext]_vars

\* SecretStore.set(key, value, persist_env=...)
Set ==
    /\ impl = "core"
    /\ \E key \in Keys, value \in SecretInputs, persist_env \in BOOLEAN :
          LET S == StoreSet(StoreState, key, value, persist_env) IN
          /\ Becomes(S)
          /\ ret' = [op |-> "set", key |-> key, value |-> value, persist_env |-> persist_env,
                     status |-> IF S.raised = "no" THEN "ok" ELSE S.raised]

\* SecretStore.get(key, prompt_text=..., allow_prompt=..., default=...)
Get ==
    /\ impl = "core"
    /\ \E key \in Keys, default \in {NoneV, <<"d">>}, entered \in PromptInputs :
          /\ Becomes(StoreGet(StoreState, key, default, entered))
          /\ ret' = [op |-> "get", key |-> key, default |-> default, entered |-> entered,
                     value |-> GetValue(StoreState, key, default, entered),
                     before |-> [keyring |-> FromKeyring(StoreState, key),
                                 env |-> EnvGet(StoreState, key)]]

\* SecretStore.require(key, prompt_text=...)
Require ==
    /\ impl = "core"
    /\ \E key \in Keys, entered \in PromptInputs :
          LET r == StoreRequire(StoreState, key, entered) IN
          /\ Becomes(r.state)
          /\ ret' = [op |-> "require", key |-> key, entered |-> entered,
                     status |-> r.status, value |-> r.value,
                     before |-> [keyring |-> FromKeyring(StoreState, key),
                                 env |-> EnvGet(StoreState, key)]]

\* SecretStore.delete(key)
Delete ==
    /\ impl = "core"
    /\ \E key \in Keys :
          /\ Becomes(StoreDelete(StoreState, key))
          /\ ret' = [op |-> "delete", key |-> key]

\* SecretStore.snapshot()
TakeSnapshot ==
    /\ impl = "core"
    /\ Becomes(StoreState)
    /\ ret' = [op |-> "snapshot", snapshot |-> Snapshot(StoreState)]

\* SecretSyncer.detect_drift()
DetectDrift ==
    /\ impl = "core"
    /\ Becomes(SyncerDetectDrift(StoreState))
    /\ ret' = [op |-> "detect_drift", drift |-> SyncerDrift(StoreState)]

\* SecretSyncer.force_sync()
ForceSync ==
    /\ impl = "core"
    /\ LET S == SyncerForceSync(StoreState) IN
          /\ Becomes(S)
          /\ ret' = [op |-> "force_sync",
                     status |-> IF S.raised = "no" THEN "ok" ELSE S.raised,
                     known |-> SnapshotKeys(StoreState),
                     before |-> [keyring |-> [k \in Keys |-> FromKeyring(StoreState, k)],
                                 env |-> envCache]]

\* SecretsStore.detect_drift()
ServiceDetectDrift ==
    /\ impl = "services"
    /\ ret' = [op |-> "detect_drift", drift |-> ServiceDrift(stores)]
    /\ UNCHANGED <<impl, indexVars, procVars, fileVars, syncVars, ledgerVars, backend, keyring, envCache, index, stores, logged, adapterVars, backupVars>>

\* SecretSyncer.apply_decisions(decisions)
ApplyDecisions ==
    /\ impl = "core"
    /\ \E decisions \in Decisions :
          LET S == SyncerApplyDecisions(StoreState, decisions) IN
          /\ Becomes(S)
          /\ ret' = [op |-> "apply_decisions", decisions |-> decisions,
                     status |-> IF S.raised = "no" THEN "ok" ELSE S.raised,
                     before |-> [keyring |-> [k \in Keys |-> FromKeyring(StoreState, k)],
                                 env |-> envCache]]

\* SecretsStore.apply_decisions({key: (store, value)})
ServiceApplyDecisions ==
    /\ impl = "services"
    /\ \E key \in Keys, store \in StoreNames, value \in ServiceValues :
          /\ stores' = ServiceApplyDecision(stores, key, value)
          /\ ret' = [op |-> "apply_decisions", key |-> key, store |-> store,
                     value |-> value, status |-> "ok", before |-> stores]
    /\ UNCHANGED <<impl, indexVars, procVars, fileVars, syncVars, ledgerVars, backend, keyring, envCache, index, logged, adapterVars, backupVars>>

\* SecretsStore.snapshot() and SecretsStore.keys()
ServiceTakeSnapshot ==
    /\ impl = "services"
    /\ ret' = [op |-> "snapshot", snapshot |-> ServiceSnapshot(stores),
               keys |-> ServiceKeys(stores)]
    /\ UNCHANGED <<impl, indexVars, procVars, fileVars, syncVars, ledgerVars, backend, keyring, envCache, index, stores, logged, adapterVars, backupVars>>

\* SecretsStore.force_sync()
ServiceForceSync ==
    /\ impl = "services"
    /\ stores' = ReconcilePriority(stores)
    /\ ret' = [op |-> "force_sync", status |-> "ok", before |-> stores,
               actions |-> ReconcileActions(stores)]
    /\ UNCHANGED <<impl, indexVars, procVars, fileVars, syncVars, ledgerVars, backend, keyring, envCache, index, logged, adapterVars, backupVars>>

\* SecretsStore.set_secret(key, value)
ServiceSetSecret ==
    /\ impl = "services"
    /\ \E key \in Keys, value \in ServiceValues :
          /\ stores' = [n \in StoreNames |-> [stores[n] EXCEPT ![key] = value]]
          /\ index' = [index EXCEPT ![key] = [present |-> TRUE, sources |-> {}]]
          /\ ret' = [op |-> "set_secret", key |-> key, value |-> value]
    /\ UNCHANGED <<impl, indexVars, procVars, fileVars, syncVars, ledgerVars, backend, keyring, envCache, logged, adapterVars, backupVars>>

\* SecretsStore.remove_secret(key)
ServiceRemoveSecret ==
    /\ impl = "services"
    /\ \E key \in Keys :
          /\ stores' = [n \in StoreNames |-> [stores[n] EXCEPT ![key] = NoneV]]
          /\ index' = [index EXCEPT ![key] = NoEntry]
          /\ ret' = [op |-> "remove_secret", key |-> key]
    /\ UNCHANGED <<impl, indexVars, procVars, fileVars, syncVars, ledgerVars, backend, keyring, envCache, logged, adapterVars, backupVars>>

StoreNext ==
    \/ Set \/ Get \/ Require \/ Delete \/ TakeSnapshot \/ DetectDrift \/ ForceSync
    \/ ApplyDecisions \/ ServiceApplyDecisions
    \/ ServiceTakeSnapshot \/ ServiceDetectDrift \/ ServiceForceSync \/ ServiceSetSecret \/ ServiceRemoveSecret

SpecStore == InitStore /\ [][StoreNext]_vars

(***************************************************************************)
(* utils/keyring_backend.py: KeyringLibraryAdapter and rotate_entries      *)
(***************************************************************************)

MaxAdapterClock == 4

\* the (service, username) pairs of the model: two users of one service, one of another
EntryIds == {<<"A", "u1">>, <<"A", "u2">>, <<"B", "u1">>}

\* sorted(index.items()) / entries.sort()
EntryOrder == <<(<<"A", "u1">>), (<<"A", "u2">>), (<<"B", "u1">>)>>

\* the `services` argument of rotate_entries: None or an empty list, or service names
Whitelists == {{}, {"A"}, {"B"}, {"A", "B"}, {"C"}}

NoMeta == [present |-> FALSE, created |-> 0, modified |-> 0, last_accessed |-> 0]

\* the `length` argument of rotate_entries
TokenLengths == {0, 16}

\* secrets.token_urlsafe(length): the empty string for no bytes, else the n-th token
\* drawn, unlike every value drawn or stored before
TokenUrlsafe(n, length) == IF length = 0 THEN << >> ELSE <<"token", n>>

\* the adapter's mutable state as one value
AdapterState == [pw |-> passwords, idx |-> adapterIndex, now |-> clock, minted |-> minted]

\* KeyringLibraryAdapter.list_entries: the indexed pairs
ListEntries(A) == {e \in EntryIds : A.idx[e].present}

RECURSIVE IndexPayload(_, _)
\* KeyringLibraryAdapter._save_index: the list written to secrets_index.json, one item
\* per pair of the index, in sorted order, from the i-th pair on
IndexPayload(idx, i) ==
    IF i > Len(EntryOrder) THEN << >>
    ELSE (IF idx[EntryOrder[i]].present THEN <<EntryOrder[i]>> ELSE << >>)
            \o IndexPayload(idx, i + 1)

\* the `secret` argument of set_entry
AdapterSecrets == {<<"v">>, <<"w">>}

\* KeyringLibraryAdapter.set_secret (the faulty variant keeps a password that is there)
MutAdapterSetSecret(A, e, secret) ==
    [A EXCEPT !.pw[e] = IF @ = NoneV THEN secret ELSE @,
              !.idx[e] = [present |-> TRUE,
                          created |-> IF @.present /\ @.created # 0 THEN @.created ELSE A.now,
                          modified |-> A.now,
                          last_accessed |-> @.last_accessed],
              !.now = @ + 1]
AdapterSetSecret(A, e, secret) ==
    [A EXCEPT !.pw[e] = secret,
              !.idx[e] = [present |-> TRUE,
                          created |-> IF @.present /\ @.created # 0 THEN @.created ELSE A.now,
                          modified |-> A.now,
                          last_accessed |-> @.last_accessed],
              !.now = @ + 1]

\* KeyringLibraryAdapter.get_secret: the state it leaves
AdapterGetSecret(A, e) ==
    IF A.pw[e] = NoneV THEN A
    ELSE [A EXCEPT !.idx[e] = [@ EXCEPT !.present = TRUE, !.last_accessed = A.now],
                   !.now = @ + 1]

\* KeyringLibraryAdapter.delete_secret (the faulty variant leaves the index as it is)
MutAdapterDeleteSecret(A, e) ==
    [A EXCEPT !.pw[e] = NoneV]
AdapterDeleteSecret(A, e) ==
    [A EXCEPT !.pw[e] = NoneV, !.idx[e] = NoMeta]

\* rotate_entries: whether the loop rotates the entry
MutIsTargeted(whitelist, e) == TRUE
IsTargeted(whitelist, e) == whitelist = {} \/ e[1] \in whitelist

RECURSIVE RotateLoop(_, _, _, _, _, _)
\* rotate_entries: the loop over the entries listed on entry, from the i-th on
RotateLoop(A, listed, whitelist, length, i, rotated) ==
    IF i > Len(EntryOrder) THEN [state |-> A, rotated |-> rotated]
    ELSE LET e == EntryOrder[i] IN
         IF e \notin listed \/ ~IsTargeted(whitelist, e)
         THEN RotateLoop(A, listed, whitelist, length, i + 1, rotated)
         ELSE RotateLoop(AdapterSetSecret([A EXCEPT !.minted = @ + 1], e,
                                          TokenUrlsafe(A.minted + 1, length)),
                         listed, whitelist, length, i + 1, rotated + 1)

\* rotate_entries(services=..., length=...)
RotateEntries(A, whitelist, length) ==
    RotateLoop(A, ListEntries(A), whitelist, length, 1, 0)

\* the adapter's variables after an operation that left state A
AdapterBecomes(A) ==
    /\ passwords' = A.pw
    /\ adapterIndex' = A.idx
    /\ clock' = A.now
    /\ minted' = A.minted
    /\ UNCHANGED <<impl, indexVars, procVars, fileVars, syncVars, ledger, entries, altered, storeVars, backupVars>>

\* a keyring that may already hold a password the index does not know
InitAdapter ==
    /\ impl = "adapter"
    /\ ledger = << >>
    /\ clock = 1
    /\ entries = << >>
    /\ altered = "none"
    /\ StoreIdle
    /\ passwords \in {[e \in EntryIds |-> IF e = <<"B", "u1">> THEN v ELSE NoneV] :
                        v \in {NoneV, <<"v">>}}
    /\ adapterIndex = [e \in EntryIds |-> NoMeta]
    /\ minted = 0
    /\ BackupIdle
    /\ FileIdle
    /\ IndexIdle
    /\ ProcIdle
    /\ SyncIdle
    /\ ret = [op |-> "init"]

\* keyring_backend.set_entry(service, username, secret)
SetEntry ==
    /\ clock < MaxAdapterClock
    /\ \E e \in EntryIds, secret \in AdapterSecrets :
          /\ AdapterBecomes(AdapterSetSecret(AdapterState, e, secret))
          /\ ret' = [op |-> "set_entry", entry |-> e, secret |-> secret,
                     before |-> passwords[e], known |-> ListEntries(AdapterState),
                     meta |-> adapterIndex[e]]

\* keyring_backend.get_entry(service, username)
GetEntry ==
    /\ clock < MaxAdapterClock
    /\ \E e \in EntryIds :
          /\ AdapterBecomes(AdapterGetSecret(AdapterState, e))
          /\ ret' = [op |-> "get_entry", entry |-> e, secret |-> passwords[e],
                     meta |-> adapterIndex[e]]

\* keyring_backend.delete_entry(service, username)
DeleteEntry ==
    /\ clock < MaxAdapterClock
    /\ \E e \in EntryIds :
          /\ AdapterBecomes(AdapterDeleteSecret(AdapterState, e))
          /\ ret' = [op |-> "delete_entry", entry |-> e, before |-> passwords[e],
                     known |-> ListEntries(AdapterState)]

\* SecretsManager.rotate(services=..., length=...)
Rotate ==
    /\ clock < MaxAdapterClock
    /\ \E whitelist \in Whitelists, length \in TokenLengths :
          LET r == RotateEntries(AdapterState, whitelist, length) IN
          /\ AdapterBecomes(r.state)
          /\ ret' = [op |-> "rotate", services |-> whitelist, length |-> length,
                     count |-> r.rotated, before |-> passwords,
                     known |-> ListEntries(AdapterState)]

AdapterNext == SetEntry \/ GetEntry \/ DeleteEntry \/ Rotate

SpecAdapter == InitAdapter /\ [][AdapterNext]_vars

(***************************************************************************)
(* security/encrypted_store.py: EncryptedJSONStore                         *)
(***************************************************************************)

\* EncryptedJSONStore.iterations
Iterations == 200000

\* the authentication tag AESGCM.encrypt appends to the ciphertext, in bytes
TagBytes == 16

\* what passphrase_resolver returns; the default resolver returns the empty string
Passphrases == {"", "pw1", "pw2"}

\* os.urandom(kdf_salt_bytes) and secrets.token_bytes(nonce_bytes)
Salts == {1, 2}
Nonces == {1, 2}

\* Python values handed to save: a dict of n items, by the type of its keys and of its
\* values
Payloads == [keys : {"str", "int"}, vals : {"int", "list", "tuple"}, n : {1}]

\* the dict {} and the value None
EmptyDict == [keys |-> "str", vals |-> "int", n |-> 0]
NoValue == [keys |-> "none", vals |-> "none", n |-> 0]

\* json.dumps(payload, sort_keys=True): every key becomes a JSON string, a list and a
\* tuple both become a JSON array; the text is never shorter than "{}"
JsonDumps(p) ==
    [json |-> "object",
     members |-> IF p.vals \in {"list", "tuple"} THEN "array" ELSE "number",
     n |-> p.n,
     size |-> 2 + 6 * p.n]

\* json.loads(text): an object becomes a dict with str keys, an array becomes a list
JsonLoads(text) ==
    [keys |-> "str",
     vals |-> IF text.n = 0 THEN "int" ELSE IF text.members = "array" THEN "list" ELSE "int",
     n |-> text.n]

\* EncryptedJSONStore._derive_key past the check of the passphrase: PBKDF2-HMAC-SHA256
DeriveKey(passphrase, salt) == <<passphrase, salt, Iterations>>

\* AESGCM(key).encrypt(nonce, data, associated_data)
AesGcmEncrypt(key, nonce, data) ==
    [key |-> key, nonce |-> nonce, data |-> data, intact |-> TRUE,
     size |-> data.size + TagBytes]

\* AESGCM(key).decrypt(nonce, ciphertext, associated_data) does not raise InvalidTag
AesGcmOpens(key, nonce, ciphertext) ==
    ciphertext.intact /\ ciphertext.key = key /\ ciphertext.nonce = nonce

\* base64.b64encode(data).decode("ascii")
B64Text(data, size) == [raw |-> data, junk |-> 0, empty |-> size = 0]

NoFile == << >>

\* save: the envelope written for a salt and a nonce (the faulty variant records a
\* salt drawn again instead of the one the key was derived from)
MutEnvelope(payload, passphrase, salt, nonce) ==
    [fields |-> {"salt", "nonce", "ciphertext"},
     iterations |-> Iterations,
     salt |-> B64Text(3 - salt, 16),
     nonce |-> B64Text(nonce, 12),
     ciphertext |-> LET c == AesGcmEncrypt(DeriveKey(passphrase, salt), nonce,
                                           JsonDumps(payload))
                    IN B64Text(c, c.size)]
Envelope(payload, passphrase, salt, nonce) ==
    [fields |-> {"salt", "nonce", "ciphertext"},
     iterations |-> Iterations,
     salt |-> B64Text(salt, 16),
     nonce |-> B64Text(nonce, 12),
     ciphertext |-> LET c == AesGcmEncrypt(DeriveKey(passphrase, salt), nonce,
                                           JsonDumps(payload))
                    IN B64Text(c, c.size)]

\* Path.write_text opens the target itself with mode "w": from then until the text is
\* flushed the file holds no more than a prefix of the new envelope, which is not JSON
Truncated == [fields |-> {}]

\* where a call of save can stop: ahead of write_text, or inside it
StopPoints == {"before_open", "in_write"}

\* the file a save leaves when it stops at a point
PartialSave(f, point) == IF point = "before_open" THEN f ELSE Truncated

\* EncryptedJSONStore.save: the outcome and the file it leaves
StoreSave(f, payload, passphrase, salt, nonce) ==
    IF passphrase = ""
    THEN [status |-> "EncryptedStoreError", file |-> f]
    ELSE [status |-> "ok", file |-> Envelope(payload, passphrase, salt, nonce)]

\* _b64decode_field raises: the field is missing, or its text is not decodable
FieldFails(f, name) == name \notin f.fields \/ f[name].empty

\* EncryptedJSONStore.load: the outcome and the value returned
StoreLoad(f, passphrase, default) ==
    IF f = NoFile
    THEN [status |-> "ok", value |-> IF default # NoValue THEN default ELSE EmptyDict]
    ELSE IF FieldFails(f, "salt") \/ FieldFails(f, "nonce") \/ FieldFails(f, "ciphertext")
    THEN [status |-> "EncryptedStoreError", value |-> NoValue]
    ELSE IF passphrase = ""
    THEN [status |-> "EncryptedStoreError", value |-> NoValue]
    ELSE LET salt == B64Decode(f.salt)
             nonce == B64Decode(f.nonce)
             ciphertext == B64Decode(f.ciphertext)
         IN IF AesGcmOpens(DeriveKey(passphrase, salt), nonce, ciphertext)
            THEN [status |-> "ok", value |-> JsonLoads(ciphertext.data)]
            ELSE [status |-> "EncryptedStoreError", value |-> NoValue]

\* the ways to alter one stored field: other bytes, characters outside the base64
\* alphabet inserted in its text, its text emptied, or the field removed
TamperKinds == {"bytes", "junk", "empty", "missing"}

Tamper(f, name, kind) ==
    IF kind = "missing" THEN [f EXCEPT !.fields = @ \ {name}]
    ELSE IF kind = "empty" THEN [f EXCEPT ![name].empty = TRUE]
    ELSE IF kind = "junk" THEN [f EXCEPT ![name].junk = 1]
    ELSE IF name = "ciphertext" THEN [f EXCEPT !.ciphertext.raw.intact = FALSE]
    ELSE [f EXCEPT ![name].raw = 3 - @]

\* a state directory without the file
InitBackup ==
    /\ impl = "backup"
    /\ LedgerIdle
    /\ StoreIdle
    /\ AdapterIdle
    /\ disk = NoFile
    /\ saved = NoFile
    /\ tampered = "none"
    /\ FileIdle
    /\ IndexIdle
    /\ ProcIdle
    /\ SyncIdle
    /\ ret = [op |-> "init"]

\* EncryptedJSONStore(passphrase_resolver=lambda: passphrase).save(payload)
Save ==
    \E payload \in Payloads \cup {EmptyDict}, passphrase \in Passphrases,
       salt \in Salts, nonce \in Nonces :
        LET r == StoreSave(disk, payload, passphrase, salt, nonce) IN
        /\ disk' = r.file
        /\ saved' = IF r.status = "ok"
                    THEN [payload |-> payload, passphrase |-> passphrase] ELSE saved
        /\ tampered' = IF r.status = "ok" THEN "none" ELSE tampered
        /\ ret' = [op |-> "save", payload |-> payload, passphrase |-> passphrase,
                   status |-> r.status]
        /\ UNCHANGED <<impl, indexVars, procVars, fileVars, syncVars, ledgerVars, storeVars, adapterVars>>

\* EncryptedJSONStore(passphrase_resolver=lambda: passphrase).load(default)
Load ==
    \E passphrase \in Passphrases, default \in {NoValue, EmptyDict} :
        LET r == StoreLoad(disk, passphrase, default) IN
        /\ ret' = [op |-> "load", passphrase |-> passphrase, status |-> r.status,
                   value |-> r.value]
        /\ UNCHANGED <<impl, indexVars, procVars, fileVars, syncVars, ledgerVars, storeVars, adapterVars, backupVars>>

\* EncryptedJSONStore(passphrase_resolver=lambda: passphrase).rotate_passphrase(new)
RotatePassphrase ==
    \E passphrase \in Passphrases, new \in Passphrases, salt \in Salts, nonce \in Nonces :
        LET l == StoreLoad(disk, passphrase, EmptyDict)
            r == StoreSave(disk, l.value, new, salt, nonce)
            ok == new # "" /\ l.status = "ok"
        IN
        /\ disk' = IF ok THEN r.file ELSE disk
        /\ saved' = IF ok THEN [payload |-> l.value, passphrase |-> new] ELSE saved
        /\ tampered' = IF ok THEN "none" ELSE tampered
        /\ ret' = [op |-> "rotate_passphrase", passphrase |-> passphrase, new |-> new,
                   status |-> IF ok THEN "ok" ELSE "EncryptedStoreError",
                   before |-> disk]
        /\ UNCHANGED <<impl, indexVars, procVars, fileVars, syncVars, ledgerVars, storeVars, adapterVars>>

\* rotate_passphrase(new) over a file that loads, stopped inside its save (the process
\* is killed, or the write fails)
RotateInterrupted ==
    /\ disk # NoFile
    /\ \E passphrase \in Passphrases, new \in Passphrases, point \in StopPoints :
          /\ new # ""
          /\ StoreLoad(disk, passphrase, EmptyDict).status = "ok"
          /\ disk' = PartialSave(disk, point)
          /\ tampered' = IF point = "in_write" THEN "truncated" ELSE tampered
          /\ ret' = [op |-> "rotate_passphrase", passphrase |-> passphrase, new |-> new,
                     status |-> "interrupted", before |-> disk]
    /\ UNCHANGED <<impl, indexVars, procVars, fileVars, syncVars, ledgerVars, storeVars, adapterVars, saved>>

\* someone with access to the file alters one stored field, once per save
TamperFile ==
    /\ disk # NoFile
    /\ tampered = "none"
    /\ \E name \in {"salt", "nonce", "ciphertext"}, kind \in TamperKinds :
          /\ disk' = Tamper(disk, name, kind)
          /\ tampered' = kind
          /\ ret' = [op |-> "tamper", field |-> name, kind |-> kind]
    /\ UNCHANGED <<impl, indexVars, procVars, fileVars, syncVars, ledgerVars, storeVars, adapterVars, saved>>

BackupNext == Save \/ Load \/ RotatePassphrase \/ RotateInterrupted \/ TamperFile

SpecBackup == InitBackup /\ [][BackupNext]_vars

(***************************************************************************)
(* utils/keyring_compat.py: FileKeyring                                    *)
(***************************************************************************)

\* the service and key arguments callers pass, the empty string among them
FkServices == {"", "svc", "alt"}
FkKeys == {"", "alpha", "beta"}

\* the value arguments: a string, the empty string and None
FkValues == {<<"s">>, << >>, NoneV}

\* str(value)
Str(value) == IF value = NoneV THEN <<"N", "o", "n", "e">> ELSE value

\* FileKeyring._read_all: the document of the file, without its empty namespaces
ReadAll(file) ==
    IF ~file.exists THEN << >>
    ELSE LET kept == {s \in DOMAIN file.doc : DOMAIN file.doc[s] # {}} IN
         [s \in kept |-> file.doc[s]]

\* FileKeyring._write_all: an empty document removes the file, any other replaces it
WriteAll(file, data) ==
    IF DOMAIN data = {} THEN [exists |-> FALSE, doc |-> << >>]
    ELSE [exists |-> TRUE, doc |-> data]

\* FileKeyring.get_password
FileGetPassword(file, service, key) ==
    IF service = "" \/ key = "" THEN NoneV
    ELSE LET data == ReadAll(file) IN
         IF service \in DOMAIN data /\ key \in DOMAIN data[service]
         THEN data[service][key] ELSE NoneV

\* FileKeyring.set_password
FileSetPassword(file, service, key, value) ==
    IF service = "" \/ key = "" THEN [file |-> file, status |-> "ValueError"]
    ELSE LET data == ReadAll(file)
             old == IF service \in DOMAIN data THEN data[service] ELSE << >>
             bucket == [k \in DOMAIN old \cup {key} |->
                          IF k = key THEN Str(value) ELSE old[k]]
             new == [s \in DOMAIN data \cup {service} |->
                          IF s = service THEN bucket ELSE data[s]]
         IN [file |-> WriteAll(file, new), status |-> "ok"]

\* FileKeyring.delete_password (the faulty variant keeps a namespace it has emptied)
MutFileDeletePassword(file, service, key) ==
    IF service = "" \/ key = "" THEN file
    ELSE LET data == ReadAll(file) IN
         IF service \in DOMAIN data /\ key \in DOMAIN data[service]
         THEN LET bucket == [k \in DOMAIN data[service] \ {key} |-> data[service][k]]
              IN WriteAll(file, [data EXCEPT ![service] = bucket])
         ELSE file
FileDeletePassword(file, service, key) ==
    IF service = "" \/ key = "" THEN file
    ELSE LET data == ReadAll(file) IN
         IF service \in DOMAIN data /\ key \in DOMAIN data[service]
         THEN LET bucket == [k \in DOMAIN data[service] \ {key} |-> data[service][k]]
              IN IF DOMAIN bucket # {}
                 THEN WriteAll(file, [data EXCEPT ![service] = bucket])
                 ELSE WriteAll(file, [s \in DOMAIN data \ {service} |-> data[s]])
         ELSE file

\* FileKeyring(storage_path) over a path that holds no file yet
InitFileKeyring ==
    /\ impl = "file_keyring"
    /\ LedgerIdle
    /\ StoreIdle
    /\ AdapterIdle
    /\ BackupIdle
    /\ FileIdle
    /\ IndexIdle
    /\ ProcIdle
    /\ SyncIdle
    /\ ret = [op |-> "init"]

\* FileKeyring.set_password(service, key, value)
SetPassword ==
    \E service \in FkServices, key \in FkKeys, value \in FkValues :
        LET r == FileSetPassword(storage, service, key, value) IN
        /\ storage' = r.file
        /\ ret' = [op |-> "set_password", service |-> service, key |-> key,
                   value |-> value, status |-> r.status, before |-> storage]
        /\ UNCHANGED <<impl, indexVars, procVars, ledgerVars, storeVars, adapterVars, backupVars, syncVars>>

\* FileKeyring.get_password(service, key)
GetPassword ==
    \E service \in FkServices, key \in FkKeys :
        /\ ret' = [op |-> "get_password", service |-> service, key |-> key,
                   value |-> FileGetPassword(storage, service, key),
                   status |-> "ok", before |-> storage]
        /\ UNCHANGED <<impl, indexVars, procVars, ledgerVars, storeVars, adapterVars, backupVars, fileVars,
                       syncVars>>

\* FileKeyring.delete_password(service, key)
DeletePassword ==
    \E service \in FkServices, key \in FkKeys :
        /\ storage' = FileDeletePassword(storage, service, key)
        /\ ret' = [op |-> "delete_password", service |-> service, key |-> key,
                   value |-> NoneV, status |-> "ok", before |-> storage]
        /\ UNCHANGED <<impl, indexVars, procVars, ledgerVars, storeVars, adapterVars, backupVars, syncVars>>

FileKeyringNext == SetPassword \/ GetPassword \/ DeletePassword

SpecFileKeyring == InitFileKeyring /\ [][FileKeyringNext]_vars

(***************************************************************************)
(* Two callers of FileKeyring.set_password on one storage path, step by    *)
(* step: threads that share one instance, or two instances of the class    *)
(***************************************************************************)

\* how the two callers reach the file: one instance and its lock, or an instance each
CallerModes == {"threads", "instances"}

\* the key each caller sets, under the same service
CallerKey == [p1 |-> "alpha", p2 |-> "beta"]

AbsentFile == [exists |-> FALSE, doc |-> << >>]

\* the storage file before the calls: absent, or with an entry of another service
PriorFiles == {AbsentFile, [exists |-> TRUE, doc |-> [alt |-> [alpha |-> <<"s">>]]]}

InitFileCallers ==
    /\ impl \in CallerModes
    /\ LedgerIdle
    /\ StoreIdle
    /\ AdapterIdle
    /\ BackupIdle
    /\ IndexIdle
    /\ SyncIdle
    /\ storage \in PriorFiles
    /\ pc = [p \in Procs |-> "idle"]
    /\ local = [lock |-> [p \in Procs |-> "free"],
                seen |-> [p \in Procs |-> AbsentFile],
                value |-> [p \in Procs |-> NoneV],
                tmp |-> AbsentFile,
                status |-> [p \in Procs |-> "running"]]
    /\ ret = [op |-> "init"]

\* the lock a caller takes: self._lock of the instance it calls
LockOf(p) == IF impl = "threads" THEN "p1" ELSE p

\* set_password: with self._lock
Acquire(p) ==
    /\ pc[p] = "idle"
    /\ local.lock[LockOf(p)] = "free"
    /\ \E value \in {<<"s">>, <<"t">>} :
          local' = [local EXCEPT !.lock[LockOf(p)] = p, !.value[p] = value]
    /\ pc' = [pc EXCEPT ![p] = "locked"]
    /\ ret' = [op |-> "acquire", proc |-> p]
    /\ UNCHANGED <<impl, indexVars, fileVars, syncVars, ledgerVars, storeVars, adapterVars,
                   backupVars>>

\* set_password: data = self._read_all()
ReadDocument(p) ==
    /\ pc[p] = "locked"
    /\ local' = [local EXCEPT !.seen[p] = storage]
    /\ pc' = [pc EXCEPT ![p] = "read"]
    /\ ret' = [op |-> "read_all", proc |-> p]
    /\ UNCHANGED <<impl, indexVars, fileVars, syncVars, ledgerVars, storeVars, adapterVars,
                   backupVars>>

\* _write_all: tmp_path.write_text(json.dumps(data)), the temporary path being the
\* same for every writer of the storage path
WriteTmpPath(p) ==
    /\ pc[p] = "read"
    /\ local' = [local EXCEPT
                    !.tmp = FileSetPassword(local.seen[p], "svc", CallerKey[p],
                                            local.value[p]).file]
    /\ pc' = [pc EXCEPT ![p] = "written"]
    /\ ret' = [op |-> "write_tmp", proc |-> p]
    /\ UNCHANGED <<impl, indexVars, fileVars, syncVars, ledgerVars, storeVars, adapterVars,
                   backupVars>>

\* _write_all: os.replace(tmp_path, self.storage_path); with no temporary file it
\* raises and set_password ends with RuntimeError
ReplaceStorage(p) ==
    /\ pc[p] = "written"
    /\ IF local.tmp.exists
       THEN /\ storage' = local.tmp
            /\ local' = [local EXCEPT !.tmp = AbsentFile]
       ELSE /\ storage' = storage
            /\ local' = [local EXCEPT !.status[p] = "RuntimeError"]
    /\ pc' = [pc EXCEPT ![p] = "replaced"]
    /\ ret' = [op |-> "replace", proc |-> p]
    /\ UNCHANGED <<impl, indexVars, syncVars, ledgerVars, storeVars, adapterVars, backupVars>>

\* _write_all: the finally clause unlinks the temporary file if it is there; then the
\* lock is released and the call ends
Release(p) ==
    /\ pc[p] = "replaced"
    /\ local' = [local EXCEPT !.tmp = AbsentFile,
                              !.lock[LockOf(p)] = "free",
                              !.status[p] = IF @ = "running" THEN "ok" ELSE @]
    /\ pc' = [pc EXCEPT ![p] = "done"]
    /\ ret' = [op |-> "release", proc |-> p]
    /\ UNCHANGED <<impl, indexVars, fileVars, syncVars, ledgerVars, storeVars, adapterVars,
                   backupVars>>

FileCallersNext ==
    \E p \in Procs :
        Acquire(p) \/ ReadDocument(p) \/ WriteTmpPath(p) \/ ReplaceStorage(p) \/ Release(p)

SpecFileCallers == InitFileCallers /\ [][FileCallersNext]_vars

(***************************************************************************)
(* core/sync_manager.py: SyncManager                                       *)
(***************************************************************************)

\* the contents of .env the runs start from, as lines: no file, P=1, K=1
EnvFiles == {<< >>, <<(<<"P", "=", "1">>)>>, <<(<<"K", "=", "1">>)>>}

\* the contents of .env.secure the runs start from: no file, S=t, a padded value and
\* a comment, a line without a key, K=1
SecureFiles ==
    {<< >>,
     <<(<<"S", "=", "t">>)>>,
     <<(<<"S", " ", "=", " ", "t">>), (<<"#", "c">>)>>,
     <<(<<"=", "v">>)>>,
     <<(<<"K", "=", "1">>)>>}

\* the keyring entries under SyncManager.SERVICE the runs start from: none, K as in
\* the file or differing from it, a key the files lack, a password the index does not
\* list, a value of two lines, an entry with an empty username
KeyringStates ==
    {<< >>,
     [u \in {<<"K">>} |-> [secret |-> <<"1">>, indexed |-> TRUE]],
     [u \in {<<"K">>} |-> [secret |-> <<"2">>, indexed |-> TRUE]],
     [u \in {<<"T">>} |-> [secret |-> <<"x">>, indexed |-> TRUE]],
     [u \in {<<"S">>} |-> [secret |-> <<"t">>, indexed |-> FALSE]],
     [u \in {<<"T">>} |-> [secret |-> <<"a", "\n", "Z", "=", "1">>, indexed |-> TRUE]],
     [u \in {<< >>} |-> [secret |-> <<"e">>, indexed |-> TRUE]]}

\* sorted(current.items()): the keys that can occur, in the order of str
SyncKeyOrder == << << >>, <<"K">>, <<"P">>, <<"S">>, <<"T">>, <<"Z">> >>

\* d[k] = v on a dict
Put(d, k, v) == [x \in DOMAIN d \cup {k} |-> IF x = k THEN v ELSE d[x]]

RECURSIVE SplitFrom(_, _, _)
SplitFrom(text, i, current) ==
    IF i > Len(text) THEN (IF current = << >> THEN << >> ELSE <<current>>)
    ELSE IF text[i] = "\n" THEN <<current>> \o SplitFrom(text, i + 1, << >>)
    ELSE SplitFrom(text, i + 1, Append(current, text[i]))

\* str.splitlines
SplitLines(text) == SplitFrom(text, 1, << >>)

\* line.split("=", 1): the index of the first "=", 0 without one
FirstEq(line) ==
    LET at == {i \in 1..Len(line) : line[i] = "="} IN
    IF at = {} THEN 0 ELSE CHOOSE i \in at : \A j \in at : i <= j

RECURSIVE LoadEnvFrom(_, _, _)
LoadEnvFrom(lines, i, loaded) ==
    IF i > Len(lines) THEN loaded
    ELSE LET line == lines[i]
             p == FirstEq(line)
         IN IF line = << >> \/ (Strip(line) # << >> /\ Head(Strip(line)) = "#") \/ p = 0
            THEN LoadEnvFrom(lines, i + 1, loaded)
            ELSE LoadEnvFrom(lines, i + 1,
                             Put(loaded, Strip(SubSeq(line, 1, p - 1)),
                                 Strip(SubSeq(line, p + 1, Len(line)))))

\* SyncManager._load_env: a path without a file has no lines
LoadEnv(lines) == LoadEnvFrom(lines, 1, << >>)

\* SyncManager._keyring_entries: the listed entries with a username and a secret
KeyringEntries(kr) ==
    [u \in {x \in DOMAIN kr : kr[x].indexed /\ x # << >> /\ kr[x].secret # NoneV}
        |-> kr[u].secret]

\* SyncManager.analyse
SyncAnalyse(env, sec, kr) ==
    LET env_values == LoadEnv(env)
        secure_values == LoadEnv(sec)
        keyring_values == KeyringEntries(kr)
    IN [env_only |-> [k \in DOMAIN env_values \ DOMAIN secure_values |-> env_values[k]],
        secure_only |-> [k \in DOMAIN secure_values \ DOMAIN keyring_values
                            |-> secure_values[k]],
        keyring_only |-> [k \in DOMAIN keyring_values \ DOMAIN secure_values
                            |-> keyring_values[k]],
        mismatched |-> {k \in DOMAIN secure_values \cap DOMAIN keyring_values :
                            keyring_values[k] # secure_values[k]}]

RECURSIVE JoinItems(_, _, _)
\* "\n".join(f"{key}={value}" for key, value in sorted(current.items()))
JoinItems(current, i, first) ==
    IF i > Len(SyncKeyOrder) THEN << >>
    ELSE LET key == SyncKeyOrder[i] IN
         IF key \in DOMAIN current
         THEN (IF first THEN << >> ELSE <<"\n">>) \o key \o <<"=">> \o current[key]
                 \o JoinItems(current, i + 1, FALSE)
         ELSE JoinItems(current, i + 1, first)

RECURSIVE SetEntries(_, _, _)
\* reconcile: keyring_backend.set_entry(SERVICE, key, value) for every secure-only item
SetEntries(kr, items, i) ==
    IF i > Len(SyncKeyOrder) THEN kr
    ELSE LET key == SyncKeyOrder[i] IN
         SetEntries(IF key \in DOMAIN items
                    THEN Put(kr, key, [secret |-> items[key], indexed |-> TRUE])
                    ELSE kr,
                    items, i + 1)

\* SyncManager.reconcile
SyncReconcile(env, sec, kr, update_env, update_keyring) ==
    LET report == SyncAnalyse(env, sec, kr)
        merged == [k \in DOMAIN LoadEnv(sec) \cup DOMAIN report.keyring_only |->
                      IF k \in DOMAIN report.keyring_only THEN report.keyring_only[k]
                      ELSE LoadEnv(sec)[k]]
    IN [report |-> report,
        secure |-> IF update_env /\ DOMAIN report.keyring_only # {}
                   THEN SplitLines(JoinItems(merged, 1, TRUE)) ELSE sec,
        keyring |-> IF update_keyring /\ DOMAIN report.secure_only # {}
                    THEN SetEntries(kr, report.secure_only, 1) ELSE kr]

\* SyncManager(root=...) over the files and the keyring as they are found
InitSync ==
    /\ impl = "sync_manager"
    /\ LedgerIdle
    /\ StoreIdle
    /\ AdapterIdle
    /\ BackupIdle
    /\ FileIdle
    /\ IndexIdle
    /\ ProcIdle
    /\ dotenv \in EnvFiles
    /\ secure \in SecureFiles
    /\ envKeyring \in KeyringStates
    /\ ret = [op |-> "init"]

\* SyncManager.analyse()
Analyse ==
    /\ ret' = [op |-> "analyse", report |-> SyncAnalyse(dotenv, secure, envKeyring)]
    /\ UNCHANGED <<impl, indexVars, procVars, ledgerVars, storeVars, adapterVars, backupVars, fileVars, syncVars>>

\* SyncManager.reconcile(update_env=..., update_keyring=...)
Reconcile ==
    \E update_env \in BOOLEAN, update_keyring \in BOOLEAN :
        LET r == SyncReconcile(dotenv, secure, envKeyring, update_env, update_keyring) IN
        /\ secure' = r.secure
        /\ envKeyring' = r.keyring
        /\ ret' = [op |-> "reconcile", update_env |-> update_env,
                   update_keyring |-> update_keyring, report |-> r.report,
                   before |-> [secure |-> secure, keyring |-> envKeyring]]
        /\ UNCHANGED <<impl, indexVars, procVars, ledgerVars, storeVars, adapterVars, backupVars, fileVars, dotenv>>

SyncNext == Analyse \/ Reconcile

SpecSync == InitSync /\ [][SyncNext]_vars

(***************************************************************************)
(* One writer of a file-backed resource, step by step, with a reader and a *)
(* crash between any two steps                                             *)
(***************************************************************************)

\* the writers that call path.write_text(content) on the target itself
InPlaceWriters == {"env_store", "secret_index", "adapter_index", "encrypted_store"}

FileWriters == InPlaceWriters \cup {"file_keyring"}

\* the contents of the file: the keys of its document, never empty here
Contents == {<<"K1">>, <<"K2">>, <<"K1", "K2">>}

\* a file with a complete document and a writer that has not begun
InitFileWrite ==
    /\ impl \in FileWriters
    /\ LedgerIdle
    /\ StoreIdle
    /\ AdapterIdle
    /\ BackupIdle
    /\ IndexIdle
    /\ SyncIdle
    /\ \E doc \in Contents :
          /\ storage = [exists |-> TRUE, doc |-> doc]
          /\ local = [old |-> doc, new |-> doc, tmp |-> << >>]
    /\ pc = "idle"
    /\ ret = [op |-> "init"]

\* FileKeyring._write_all: tmp_path.write_text(json.dumps(data))
WriteTemp ==
    /\ impl = "file_keyring"
    /\ pc = "idle"
    /\ \E new \in Contents \ {storage.doc} :
          local' = [old |-> storage.doc, new |-> new, tmp |-> new]
    /\ pc' = "tmp_written"
    /\ ret' = [op |-> "write_temp"]
    /\ UNCHANGED <<impl, indexVars, fileVars, syncVars, ledgerVars, storeVars, adapterVars,
                   backupVars>>

\* FileKeyring._write_all: os.replace(tmp_path, self.storage_path)
Replace ==
    /\ impl = "file_keyring"
    /\ pc = "tmp_written"
    /\ storage' = [exists |-> TRUE, doc |-> local.tmp]
    /\ local' = [local EXCEPT !.tmp = << >>]
    /\ pc' = "idle"
    /\ ret' = [op |-> "replace"]
    /\ UNCHANGED <<impl, indexVars, syncVars, ledgerVars, storeVars, adapterVars, backupVars>>

\* path.write_text(content) of EnvStore._write, SecretStore._write_index,
\* KeyringLibraryAdapter._save_index and EncryptedJSONStore.save: open(path, "w")
\* empties the target
OpenTruncate ==
    /\ impl \in InPlaceWriters
    /\ pc = "idle"
    /\ \E new \in Contents \ {storage.doc} :
          local' = [old |-> storage.doc, new |-> new, tmp |-> << >>]
    /\ storage' = [exists |-> TRUE, doc |-> << >>]
    /\ pc' = "opened"
    /\ ret' = [op |-> "open_truncate"]
    /\ UNCHANGED <<impl, indexVars, syncVars, ledgerVars, storeVars, adapterVars, backupVars>>

\* path.write_text(content): the write and the close put the content in the target
WriteText ==
    /\ impl \in InPlaceWriters
    /\ pc = "opened"
    /\ storage' = [exists |-> TRUE, doc |-> local.new]
    /\ pc' = "idle"
    /\ ret' = [op |-> "write_text"]
    /\ UNCHANGED <<impl, indexVars, syncVars, ledgerVars, storeVars, adapterVars, backupVars,
                   local>>

\* the writing process dies between two steps
Crash ==
    /\ pc \in {"opened", "tmp_written"}
    /\ pc' = "crashed"
    /\ ret' = [op |-> "crash"]
    /\ UNCHANGED <<impl, indexVars, fileVars, syncVars, ledgerVars, storeVars, adapterVars,
                   backupVars, local>>

\* another process reads the target between two steps of the writer
ReadFile ==
    /\ ret' = [op |-> "read_file", seen |-> storage.doc]
    /\ UNCHANGED <<impl, indexVars, procVars, fileVars, syncVars, ledgerVars, storeVars,
                   adapterVars, backupVars>>

FileWriteNext == WriteTemp \/ Replace \/ OpenTruncate \/ WriteText \/ Crash \/ ReadFile

SpecFileWrite == InitFileWrite /\ [][FileWriteNext]_vars

(***************************************************************************)
(* Ledger properties                                                       *)
(***************************************************************************)

\* C2: after any sequence of appends by one process, the first record's previous-hash
\* is the genesis value and every later record's previous-hash is the hash of the
\* record before it
C2_ChainIntegrity ==
    /\ Len(ledger) >= 1 => ledger[1].prev = Genesis
    /\ \A i \in 2..Len(ledger) : ledger[i].prev = ledger[i - 1].hash

\* two records of the file carry the same previous-hash
Forked(file) == \E i, j \in 1..Len(file) : i # j /\ file[i].prev = file[j].prev

NeverForked == impl = "logbook" => ~Forked(ledger)

\* the bytes read are whole lines: every JSON text is followed at once by its own
\* line terminator
WholeLines(data) ==
    \A i \in 1..Len(data) :
        /\ data[i].part = "json" =>
              i < Len(data) /\ data[i + 1].part = "newline" /\ data[i + 1].rec = data[i].rec
        /\ data[i].part = "newline" =>
              i > 1 /\ data[i - 1].part = "json" /\ data[i - 1].rec = data[i].rec

\* C25: each record reaches the ledger file as a single write of the full JSON text
\* plus its line terminator, so a reader that reads the file between any two steps of
\* any appender sees only complete, newline-terminated records
C25_LineAtomic == ret.op = "read_log" => WholeLines(entries)

\* C27: the backward block-wise tail read used by append returns, for every ledger
\* file of newline-terminated records of any length, the same value as reading the
\* whole file and taking the hash field of its last line, and the genesis value for
\* an empty or missing file
C27_TailReadEqualsWholeRead ==
    /\ impl = "audit" => LoadLastRecordHash(ledger) = LogbookLastHash(ledger)
    /\ impl = "forensic" => ForensicLoadLastHash(ledger) = LogbookLastHash(ledger)
    /\ ledger = << >> =>
          /\ LoadLastRecordHash(ledger) = Genesis
          /\ ForensicLoadLastHash(ledger) = Genesis
          /\ LogbookLastHash(ledger) = Genesis

\* C3: verify_tail accepts records as they were appended and rejects the list as soon
\* as one field of one record was altered
C3_VerifyDetectsAlteration ==
    (impl = "audit" /\ entries # << >>) => (VerifyTail(entries) <=> altered = "none")

\* C4: every record of the ledger carries the SHA-256 of the canonical form of its
\* hashed fields and a signature that verifies over the signed message
C4_RecordHashAndSignature ==
    \A i \in 1..Len(ledger) :
        LET r == ledger[i]
            hashed == [prev |-> r.prev, timestamp |-> r.timestamp, action |-> r.action,
                       size |-> r.size, ok |-> r.ok]
        IN  /\ impl \in {"audit", "logbook"} => r.hash = <<"sha256", hashed>>
            /\ impl = "audit" =>
                   /\ r.signature.raw.signer = AuditKey
                   /\ r.signature.raw.msg = [prev |-> r.prev, timestamp |-> r.timestamp,
                                             action |-> r.action, size |-> r.size,
                                             ok |-> r.ok, hash |-> r.hash]
            /\ impl = "logbook" =>
                   /\ r.signature.raw.signer = AuditKey
                   /\ r.signature.raw.msg = <<"sha256", hashed>>

\* C4 witness: a chained record (its previous-hash is not the genesis value) in each
\* of the two signed ledgers
C4_Witness ==
    /\ impl = "audit"
    /\ Len(ledger) >= 2
    /\ ledger[2].prev # Genesis

\* the last m lines of the file, whole and in file order
LastWhole(file, m) ==
    [j \in 1..m |-> [rec |-> Len(file) - m + j, whole |-> TRUE,
                     bytes |-> file[Len(file) - m + j].size]]

\* C19: for every ledger content, tails larger than one read block included, and
\* every n >= 1, read_tail(n) returns exactly the last min(n, total) records of the
\* file, in file order, each once and each complete.
C19_ReadTail ==
    ret.op = "read_tail" =>
        /\ ret.raw = LastWhole(ledger, Min(ret.lines, Len(ledger)))
        /\ entries = SubSeq(ledger, Len(ledger) - Min(ret.lines, Len(ledger)) + 1, Len(ledger))

(***************************************************************************)
(* Store properties                                                        *)
(***************************************************************************)

\* C1: set(k, s) with the default persist_env, immediately followed by get(k) without
\* prompt or default, returns s exactly
C1_SetGetRoundTrip ==
    (impl = "core" /\ ret.op = "set" /\ ret.status = "ok" /\ ret.persist_env)
        => GetValue(StoreState, ret.key, NoneV, NoneV) = ret.value

\* C5: the secret_set record appended by set(K, v) never contains v as a substring
C5_Redaction ==
    (impl = "core" /\ ret.op = "set" /\ ret.status = "ok")
        => \A i \in 1..Len(logged) :
              logged[i].action = "secret_set" => ~IsSubstring(ret.value, logged[i].preview)

\* whether some two of the given values differ
Disagree(values) == \E v \in values, w \in values : v # w

\* C6: the drift report names exactly the keys that two or more sources hold with
\* different values, each with the source-to-value map observed for it
C6_DriftExact ==
    ret.op = "detect_drift" =>
        IF impl = "core"
        THEN \A k \in Keys :
                LET kr == IF backend = None THEN NoneV ELSE keyring[k]
                    held == {v \in {kr, envCache[k]} : v # NoneV}
                IN  /\ k \in DOMAIN ret.drift <=> Disagree(held)
                    /\ k \in DOMAIN ret.drift =>
                          ret.drift[k] = [keyring |-> kr, env |-> envCache[k]]
        ELSE \A k \in Keys :
                LET holders == {n \in StoreNames : stores[n][k] # NoneV} IN
                /\ k \in DOMAIN ret.drift <=> Disagree({stores[n][k] : n \in holders})
                /\ k \in DOMAIN ret.drift =>
                      /\ DOMAIN ret.drift[k] = holders
                      /\ \A n \in holders : ret.drift[k][n] = stores[n][k]

\* C6 witness: a report that names a drifted key and leaves out a key that the sources
\* hold without disagreement
C6_Witness ==
    /\ impl = "core"
    /\ ret.op = "detect_drift"
    /\ \E k \in Keys : k \in DOMAIN ret.drift
    /\ \E k \in Keys : k \notin DOMAIN ret.drift /\ envCache[k] # NoneV

RECURSIVE FirstHolder(_, _, _)
\* the value of the first source of `order` that holds a value in `held` (a map from
\* source name to value)
FirstHolder(order, held, i) ==
    IF i > Len(order) THEN NoneV
    ELSE IF held[order[i]] # NoneV THEN held[order[i]]
    ELSE FirstHolder(order, held, i + 1)

\* what force_sync must leave, for a priority order among the three named sources:
\* every source holds, for each key some source held, the value of the first source
\* in the order that held it, and no drift is left. Read in the code's favour for
\* SecretSyncer: the keys are those the index or the env file lists, and the value is
\* compared as SecretStore.set stores it, without surrounding whitespace
Reconciled(order) ==
    IF impl = "core"
    THEN /\ \A k \in ret.known :
               LET was == [keyring |-> ret.before.keyring[k], env |-> ret.before.env[k],
                           env_secure |-> NoneV]
                   held == FirstHolder(order, was, 1)
                   want == IF held = NoneV THEN NoneV ELSE Strip(held)
               IN  want # NoneV =>
                      /\ backend # None => keyring[k] = want
                      /\ envCache[k] = want
         /\ DOMAIN SyncerDrift(StoreState) = {}
    ELSE /\ \A k \in Keys :
               LET was == [n \in StoreNames |-> ret.before[n][k]]
                   want == FirstHolder(order, was, 1)
               IN  want # NoneV => \A n \in StoreNames : stores[n][k] = want
         /\ DOMAIN ServiceDrift(stores) = {}

C7_WitnessCore ==
    /\ impl = "core"
    /\ ret.op = "force_sync"
    /\ ret.status = "ok"
    /\ \E k \in Keys :
          /\ ret.before.keyring[k] # NoneV
          /\ ret.before.env[k] # NoneV
          /\ ret.before.env[k] # ret.before.keyring[k]
          /\ envCache[k] = ret.before.keyring[k]

\* what the prompt yields when it is made: the typed text without surrounding
\* whitespace, or nothing for an empty entry
PromptValue(entered) ==
    IF entered = NoneV \/ Strip(entered) = << >> THEN NoneV ELSE Strip(entered)

\* C11: get returns the value of the first source, in the order adapter, env file,
\* prompt (when enabled), default, that yields a non-null value; a non-null adapter
\* value wins over the env-file value, and None is returned only when no source yields
C11_ResolutionOrder ==
    (impl = "core" /\ ret.op = "get") =>
        ret.value = IF ret.before.keyring # NoneV THEN ret.before.keyring
                    ELSE IF ret.before.env # NoneV THEN ret.before.env
                    ELSE IF PromptValue(ret.entered) # NoneV THEN PromptValue(ret.entered)
                    ELSE ret.default

\* whether some source of require yields a value that get returns
SomeSourceYields ==
    \/ ret.before.keyring # NoneV /\ ret.before.keyring # << >>
    \/ ret.before.env # NoneV
    \/ PromptValue(ret.entered) # NoneV

C12_WitnessMissing ==
    /\ impl = "core"
    /\ ret.op = "require"
    /\ ret.status = "RuntimeError"
    /\ \E i \in 1..Len(logged) : logged[i].action = "secret_missing"

\* C13: set with an empty value ends in the validation error and leaves the adapter,
\* the env file, the index and the ledger as they were; a non-empty value is stored as
\* given
C13_SetValidation ==
    [][(impl = "core" /\ ret'.op = "set") =>
          IF ret'.value = << >>
          THEN /\ ret'.status = "ValueError"
               /\ UNCHANGED <<keyring, envCache, index>>
               /\ logged' = << >>
          ELSE /\ ret'.status = "ok"
               /\ backend # None => keyring'[ret'.key] = ret'.value
               /\ ret'.persist_env => envCache'[ret'.key] = ret'.value]_vars

HeldBy(k) ==
    [n \in {x \in {"keyring", "env"} :
                IF x = "keyring" THEN backend # None /\ keyring[k] # NoneV
                ELSE envCache[k] # NoneV}
        |-> IF n = "keyring" THEN keyring[k] ELSE envCache[k]]

\* the sources a snapshot entry names, with their values
Listed(entry) ==
    [n \in {x \in {"keyring", "env"} : entry[x] # NoneV} |-> entry[n]]

\* each entry of the snapshot lists exactly the sources that hold its key, and no store
\* of SecretsStore lists a key it lacks
EntriesExact ==
    IF impl = "core"
    THEN \A k \in DOMAIN ret.snapshot : Listed(ret.snapshot[k]) = HeldBy(k)
    ELSE \A n \in StoreNames :
            /\ DOMAIN ret.snapshot[n] = {k \in Keys : stores[n][k] # NoneV}
            /\ \A k \in DOMAIN ret.snapshot[n] : ret.snapshot[n][k] = stores[n][k]

\* C15: snapshot() has an entry for every key that any source holds, and each entry
\* lists exactly the sources that hold the key, with their values
C15_SnapshotComplete ==
    ret.op = "snapshot" =>
        /\ EntriesExact
        /\ IF impl = "core"
           THEN \A k \in Keys : DOMAIN HeldBy(k) # {} => k \in DOMAIN ret.snapshot
           ELSE \A k \in Keys :
                   (\E n \in StoreNames : stores[n][k] # NoneV) => k \in ret.keys

\* C15 as amended: the keys of SecretStore.snapshot() are those the metadata index or
\* the env file lists
C15_SnapshotKnownKeys ==
    ret.op = "snapshot" =>
        /\ EntriesExact
        /\ IF impl = "core"
           THEN DOMAIN ret.snapshot = {k \in Keys : index[k].present \/ envCache[k] # NoneV}
           ELSE ret.keys = {k \in Keys : \E n \in StoreNames : stores[n][k] # NoneV}

\* C15 witness: a snapshot with an entry that names both sources and an entry that
\* names one
C15_Witness ==
    /\ impl = "core"
    /\ ret.op = "snapshot"
    /\ \E k \in DOMAIN ret.snapshot : DOMAIN Listed(ret.snapshot[k]) = {"keyring", "env"}
    /\ \E k \in DOMAIN ret.snapshot : DOMAIN Listed(ret.snapshot[k]) = {"env"}

\* C16: after apply_decisions, for each decided key that the named source held, every
\* source holds the value the named source held before the call, whatever a source of
\* higher priority held; the other keys keep their values in every source
C16_ApplyDecisions ==
    (ret.op = "apply_decisions" /\ ret.status = "ok") =>
        IF impl = "core"
        THEN /\ \A k \in DOMAIN ret.decisions :
                   LET v == ret.before[ret.decisions[k]][k] IN
                   v # NoneV => /\ backend # None => keyring[k] = v
                                /\ envCache[k] = v
             /\ \A k \in Keys \ DOMAIN ret.decisions :
                   /\ backend # None => keyring[k] = ret.before.keyring[k]
                   /\ envCache[k] = ret.before.env[k]
        ELSE /\ ret.before[ret.store][ret.key] # NoneV =>
                   \A n \in StoreNames : stores[n][ret.key] = ret.before[ret.store][ret.key]
             /\ \A k \in Keys \ {ret.key}, n \in StoreNames : stores[n][k] = ret.before[n][k]

\* the mode of the reconciliation the last operation ran
ReconciliationMode == IF ret.op = "force_sync" THEN "priority" ELSE "manual"

\* the records the last operation appended that name a key and the mode
ModeRecords ==
    {i \in 1..Len(logged) : logged[i].key \in Keys /\ logged[i].info = ReconciliationMode}

\* the number of actions the last reconciliation returned: the count SecretSyncer
\* logs at its end, the length of the list SecretsStore returns
ActionsReturned ==
    IF impl = "core" THEN logged[Len(logged)].count
    ELSE IF ret.op = "force_sync" THEN Cardinality(ret.actions)
    ELSE 1

\* C22: every reconciliation action applied by force_sync or apply_decisions produces
\* its own audit record that carries the key, the winning source and the mode
\* (priority for force_sync, manual for apply_decisions): the number of such records
\* appended equals the number of actions returned.
C22_ReconciliationLogged ==
    (ret.op \in {"force_sync", "apply_decisions"} /\ ret.status = "ok")
        => Cardinality(ModeRecords) = ActionsReturned

\* C23: a write of a key sets modified to now and sets created only if it was absent,
\* so created never changes after the first write and created <= modified always
\* holds; a read of a key sets last_accessed to now and leaves created and modified
\* unchanged.
C23_Timestamps ==
    impl = "index" =>
        /\ \A k \in Keys : stamps[k].created_at <= stamps[k].updated_at
        /\ ret.op = "set" =>
              /\ stamps[ret.key].updated_at = ret.now
              /\ stamps[ret.key].created_at =
                    (IF ret.before = NoStamp THEN ret.now ELSE ret.before.created_at)
        /\ (ret.op = "get" /\ ret.value # NoneV) =>
              /\ stamps[ret.key].last_access = ret.now
              /\ ret.before # NoStamp =>
                    /\ stamps[ret.key].created_at = ret.before.created_at
                    /\ stamps[ret.key].updated_at = ret.before.updated_at

\* the values the store holds: what the keyring and the env file have for some key
HeldSecrets ==
    {v \in {keyring[k] : k \in DOMAIN keyring} \cup {envCache[k] : k \in DOMAIN envCache} :
        v # NoneV /\ v # << >>}

\* C28: no record in the audit ledger contains the full cleartext value of any secret
\* held by the store, whichever operation produced the record, a collaborator call
\* that resolves a secret such as connecting with the stored RPC URL included
C28_NoCleartext ==
    impl \in {"core", "index"} =>
        \A i \in 1..Len(logged) : \A v \in HeldSecrets :
            /\ logged[i].preview # v
            /\ logged[i].action = "web3_connect" => ~IsSubstring(v, logged[i].info)

(***************************************************************************)
(* Adapter properties                                                      *)
(***************************************************************************)

\* the known entries a rotate call aims at: all of them without a target, else those
\* of the named services
Targeted == {e \in ret.known : ret.services = {} \/ e[1] \in ret.services}

\* what rotate does to the entries: every targeted known entry gets a new value, every
\* other entry keeps its value, and the count is the number of entries rotated
RotationEffect ==
    /\ \A e \in Targeted : passwords[e] # ret.before[e] /\ passwords[e] # NoneV
    /\ \A e \in EntryIds \ Targeted : passwords[e] = ret.before[e]
    /\ ret.count = Cardinality(Targeted)

NoDuplicates(list) == \A i, j \in 1..Len(list) : list[i] = list[j] => i = j

\* C21: in every state reachable by set and delete calls on one adapter, each
\* (namespace, key) pair has at most one stored value and at most one entry in
\* list_entries(); a second set on the same pair replaces the value and does not add
\* an entry.
C21_Uniqueness ==
    impl = "adapter" =>
        /\ NoDuplicates(IndexPayload(adapterIndex, 1))
        /\ Len(IndexPayload(adapterIndex, 1)) = Cardinality(ListEntries(AdapterState))
        /\ ret.op = "set_entry" =>
              /\ passwords[ret.entry] = ret.secret
              /\ ListEntries(AdapterState) = ret.known \cup {ret.entry}

\* a set on a pair that is listed and holds another value
C21_Witness ==
    /\ impl = "adapter"
    /\ ret.op = "set_entry"
    /\ ret.entry \in ret.known
    /\ ret.before # NoneV
    /\ ret.before # ret.secret
    /\ Cardinality(ListEntries(AdapterState)) = Cardinality(ret.known)

\* the adapter's timestamps of an index item that is there
Ordered(meta) == meta.created # 0 => meta.created <= meta.modified

\* C23 for KeyringLibraryAdapter: set_secret sets modified to now and created only if
\* absent, get_secret sets last_accessed to now and leaves created and modified alone
C23_AdapterTimestamps ==
    impl = "adapter" =>
        /\ \A e \in EntryIds : Ordered(adapterIndex[e])
        /\ ret.op = "set_entry" =>
              /\ adapterIndex[ret.entry].modified = clock - 1
              /\ adapterIndex[ret.entry].created =
                    (IF ret.meta.created # 0 THEN ret.meta.created ELSE clock - 1)
        /\ (ret.op = "get_entry" /\ ret.secret # NoneV) =>
              /\ adapterIndex[ret.entry].last_accessed = clock - 1
              /\ adapterIndex[ret.entry].created = ret.meta.created
              /\ adapterIndex[ret.entry].modified = ret.meta.modified

\* list_entries() names the pair exactly when get_secret returns a value for it
InSync(e) == e \in ListEntries(AdapterState) <=> passwords[e] # NoneV

C9_BackupAuthentication ==
    (/\ ret.op = "load"
     /\ saved # NoFile
     /\ ret.passphrase # saved.passphrase \/ tampered # "none")
        => ret.status = "EncryptedStoreError" /\ ret.value = NoValue

\* the payloads json.loads(json.dumps(p)) gives back as they were
JsonNative(p) == p.keys = "str" /\ p.vals \in {"int", "list"}

\* the file holds a ciphertext that is not empty and is not the serialised payload
HoldsCiphertext ==
    /\ "ciphertext" \in disk.fields
    /\ ~disk.ciphertext.empty
    /\ B64Decode(disk.ciphertext).size > 0
    /\ B64Decode(disk.ciphertext) # JsonDumps(saved.payload)

\* a load of the untouched file with the passphrase it was saved under
SamePassphraseLoad ==
    /\ ret.op = "load"
    /\ saved # NoFile
    /\ tampered = "none"
    /\ ret.passphrase = saved.passphrase

\* C10: save(p) followed by load() with the same non-empty passphrase returns a value
\* equal to p, and the file holds a non-empty ciphertext rather than p
C10_BackupRoundTrip ==
    SamePassphraseLoad =>
        ret.status = "ok" /\ ret.value = saved.payload /\ HoldsCiphertext

\* C10 as amended: the load returns what json.loads gives for the serialised payload,
\* which is p itself for a payload of str-keyed dicts, lists and scalars
C10_BackupRoundTripJson ==
    SamePassphraseLoad =>
        /\ ret.status = "ok"
        /\ ret.value = JsonLoads(JsonDumps(saved.payload))
        /\ JsonNative(saved.payload) => ret.value = saved.payload
        /\ HoldsCiphertext

\* C10 witness: a dict with a list value saved and loaded back under the same passphrase
C10_Witness ==
    /\ SamePassphraseLoad
    /\ saved.payload = [keys |-> "str", vals |-> "list", n |-> 1]
    /\ ret.value = saved.payload

\* the file is a complete envelope that a load with the passphrase decrypts
Decrypts(f, passphrase) ==
    f # NoFile /\ StoreLoad(f, passphrase, EmptyDict).status = "ok"

\* C18: after rotate_passphrase(new) returns, load with the new passphrase returns the
\* payload stored before and load with the old passphrase fails; at every point of the
\* call, a stop part-way through the write included, the file on disk is a complete
\* envelope that decrypts under the old or the new passphrase.
C18_RotateKeepsEnvelope ==
    (/\ ret.op = "rotate_passphrase"
     /\ ret.new # ""
     /\ Decrypts(ret.before, ret.passphrase))
        => /\ ret.status = "ok" =>
                 /\ StoreLoad(disk, ret.new, EmptyDict).status = "ok"
                 /\ StoreLoad(disk, ret.new, EmptyDict).value
                        = StoreLoad(ret.before, ret.passphrase, EmptyDict).value
                 /\ ret.new # ret.passphrase => ~Decrypts(disk, ret.passphrase)
           /\ Decrypts(disk, ret.passphrase) \/ Decrypts(disk, ret.new)

(***************************************************************************)
(* FileKeyring properties                                                  *)
(***************************************************************************)

\* the (namespace, key) entries the file stores, whether or not _read_all keeps them
StoredEntries(file) ==
    IF ~file.exists THEN {}
    ELSE {e \in FkServices \X FkKeys :
             e[1] \in DOMAIN file.doc /\ e[2] \in DOMAIN file.doc[e[1]]}

\* the keys a namespace holds in the file
NamespaceKeys(file, service) ==
    {e[2] : e \in {x \in StoredEntries(file) : x[1] = service}}

C17_WitnessLast ==
    /\ impl = "file_keyring"
    /\ ret.op = "delete_password"
    /\ StoredEntries(ret.before) = {<<ret.service, ret.key>>}
    /\ ~storage.exists

\* C29: when two callers (threads sharing one instance, or two instances opened on the
\* same storage path) run set_password on different keys concurrently, both entries
\* are present in the file once both calls have returned
C29_BothEntriesPresent ==
    (impl \in CallerModes /\ \A p \in Procs : pc[p] = "done" /\ local.status[p] = "ok")
        => \A p \in Procs :
              FileGetPassword(storage, "svc", CallerKey[p]) = local.value[p]

(***************************************************************************)
(* SyncManager properties                                                  *)
(***************************************************************************)

\* the keys of the keyring: the entries under SyncManager.SERVICE that the adapter
\* lists with a username and a secret
KeyringHeld(kr) == DOMAIN KeyringEntries(kr)

\* a reconcile with both updates enabled has just run
BothUpdates == ret.op = "reconcile" /\ ret.update_env /\ ret.update_keyring

\* C20: reconcile() with both updates enabled returns a report that lists as env_only
\* the keys of .env missing from .env.secure and as secure_only the keys of
\* .env.secure missing from the keyring; afterwards the keyring holds the .env.secure
\* value of every formerly secure-only key and .env.secure holds every formerly
\* keyring-only key, so a following analyse() reports empty secure_only and
\* keyring_only.
C20_Reconcile ==
    BothUpdates =>
        LET was == LoadEnv(ret.before.secure)
            held == KeyringHeld(ret.before.keyring)
            next == SyncAnalyse(dotenv, secure, envKeyring)
        IN /\ DOMAIN ret.report.env_only = DOMAIN LoadEnv(dotenv) \ DOMAIN was
           /\ DOMAIN ret.report.secure_only = DOMAIN was \ held
           /\ \A k \in DOMAIN was \ held :
                 k \in DOMAIN envKeyring /\ envKeyring[k].secret = was[k]
           /\ \A k \in held \ DOMAIN was : k \in DOMAIN LoadEnv(secure)
           /\ DOMAIN next.secure_only = {}
           /\ DOMAIN next.keyring_only = {}

\* C21 for FileKeyring: a set_password stores its value under the pair whatever the
\* pair held, and adds an entry only for a pair that had none
C21_FileUniqueness ==
    (impl = "file_keyring" /\ ret.op = "set_password" /\ ret.status = "ok") =>
        /\ FileGetPassword(storage, ret.service, ret.key) = Str(ret.value)
        /\ StoredEntries(storage) = StoredEntries(ret.before) \cup {<<ret.service, ret.key>>}

(***************************************************************************)
(* File write properties                                                   *)
(***************************************************************************)

\* C26: every write to a file-backed resource is done by writing a temporary file and
\* renaming it over the target, so a concurrent reader or a crash at any step observes
\* either the complete old content or the complete new content
C26_AtomicWrites ==
    /\ ret.op = "read_file" => ret.seen \in {local.old, local.new}
    /\ pc = "crashed" => storage.doc \in {local.old, local.new}

====
